---- MODULE Spec2Model ----
(***************************************************************************)
(* A model of the opcode handlers of src/lib/opFns.js: the gas meter, the  *)
(* memory helpers, the memory-touching handlers, the call/create protocol  *)
(* (CALL, CALLCODE, DELEGATECALL, CREATE, makeCall, parseCallResults) and  *)
(* SELFDESTRUCT.  A frame is the record runState; a handler that suspends  *)
(* on the state backend is split at its callbacks, and the handler in      *)
(* progress is the record h.                                               *)
(***************************************************************************)
EXTENDS Integers, Sequences, FiniteSets, TLC

VARIABLES
    runState,      \* the executing frame (the runState object of opFns.js)
    h,             \* the handler in progress: its operands, its position, what it did
    acc,           \* what the frame's memory accesses added up to so far
    accounts,      \* the state backend: address -> account
    selfdestruct,  \* the selfdestruct set objects; frames refer to them by index
    callStack,     \* the suspended parent frames, innermost last
    pending,       \* backend callbacks registered and not yet delivered
    credits        \* per address, the suicideRefundGas credits in the executing frame's gasRefund

vars == <<runState, h, acc, accounts, selfdestruct, callStack, pending, credits>>

(***************************************************************************)
(* Fees of ethereum-common, as opFns.js reads them (fees.<name>.v).        *)
(***************************************************************************)
memoryGas == 3
quadCoeffDiv == 512
sha3WordGas == 6
copyGas == 3
logTopicGas == 375
logDataGas == 8
callValueTransferGas == 9000
callNewAccountGas == 25000
callStipend == 2300
suicideRefundGas == 24000
stackLimit == 1024
WordBytes == 32
GasDivisor == 64

(***************************************************************************)
(* Bounds of the model.                                                    *)
(***************************************************************************)
MaxSteps == 2
MaxCalls == 1

\* An operand above MAX_INT (2^53 - 1): TLC's integers stop at 2^31 - 1, so
\* one value stands for every operand subMemUsage rejects.
Huge == 2147483646 + 1

NoError == "none"
OUT_OF_GAS == "out of gas"
INTERNAL_ERROR == "backend error"

\* The value v under a name: In(v) is what follows the assignment.
Let(v, In(_)) == In(v)

Max(a, b) == IF a >= b THEN a ELSE b
Min(a, b) == IF a <= b THEN a ELSE b

\* ceil(n / 32), the word count the specification prices.
CeilWords(n) == (n + 31) \div 32

(***************************************************************************)
(* bn.js                                                                   *)
(***************************************************************************)
\* BN.abs
BNabs(n) == IF n < 0 THEN 0 - n ELSE n

\* BN.div truncates toward zero, whatever the signs.
BNdiv(a, b) ==
    IF (a < 0) = (b < 0) THEN BNabs(a) \div BNabs(b)
    ELSE 0 - (BNabs(a) \div BNabs(b))

\* BN.divRound: the quotient rounded to the nearest integer, a remainder of
\* exactly half rounding up when the divisor is even.
divRound(a, n) ==
    LET q == a \div n
        r == a % n
        half == n \div 2
        r2 == n % 2
    IN  IF r = 0 THEN q
        ELSE IF r < half \/ (r2 = 1 /\ r = half) THEN q
        ELSE q + 1

\* `!length` of subMemUsage and `localOpts.outLength` of checkCallMemCost test
\* a BN object, and an object reference is truthy whatever number it holds.
BNIsTruthy(bn) == TRUE

(***************************************************************************)
(* Buffers are sequences of bytes.                                         *)
(***************************************************************************)
Zeros(n) == [i \in 1..n |-> 0]

\* Array.prototype.slice / Buffer.slice(from, to), 0-based, clipped; a
\* negative from counts from the end.
Slice(s, from, to) ==
    LET lo == IF from < 0 THEN Max(Len(s) + from, 0) ELSE Min(from, Len(s))
        hi == Min(Max(to, lo), Len(s))
    IN  [i \in 1..(hi - lo) |-> s[lo + i]]

\* utils.setLengthLeft(buf, n)
setLengthLeft(s, n) ==
    IF Len(s) >= n THEN Slice(s, Len(s) - n, Len(s))
    ELSE Zeros(n - Len(s)) \o s

\* unpad that strips nothing.
unpad_Keeps(s) == s

RECURSIVE unpad(_)
\* utils.unpad: strips leading zero bytes
unpad(s) == IF s # <<>> /\ Head(s) = 0 THEN unpad(Tail(s)) ELSE s

(***************************************************************************)
(* Gas meter                                                               *)
(***************************************************************************)
Thrown(rs) == rs.thrown # NoError

trap(rs, err) == [rs EXCEPT !.thrown = err]

\* subGas that charges nothing.
subGas_Free(rs, amount) == rs

subGas(rs, amount) ==
    LET rs1 == [rs EXCEPT !.gasLeft = rs.gasLeft - amount]
    IN  IF rs1.gasLeft < 0 THEN trap(rs1, OUT_OF_GAS) ELSE rs1

(***************************************************************************)
(* Memory                                                                  *)
(***************************************************************************)
MemCost(words) == words * memoryGas + (words * words) \div quadCoeffDiv

subMemUsage_Shrinks(rs, offset, length) ==
    IF offset = Huge \/ length = Huge THEN trap(rs, OUT_OF_GAS)
    ELSE LET newMemoryWordCount == divRound(offset + length, WordBytes)
             rs1 == [rs EXCEPT !.memoryWordCount = newMemoryWordCount]
             cost == MemCost(newMemoryWordCount)
             fee == Max(cost - rs1.highestMemCost, 0)
             rs2 == subGas(rs1, fee)
         IN  IF Thrown(rs2) THEN rs2
             ELSE [rs2 EXCEPT !.highestMemCost = cost, !.memGasPaid = @ + fee]

subMemUsage(rs, offset, length) ==
    IF ~BNIsTruthy(length) THEN rs
    ELSE IF offset = Huge \/ length = Huge THEN trap(rs, OUT_OF_GAS)
    ELSE Let(divRound(offset + length, WordBytes), LAMBDA newMemoryWordCount :
         IF newMemoryWordCount <= rs.memoryWordCount THEN rs
         ELSE Let([rs EXCEPT !.memoryWordCount = newMemoryWordCount], LAMBDA rs1 :
              Let(MemCost(newMemoryWordCount), LAMBDA cost :
              IF cost > rs1.highestMemCost
              THEN Let(subGas(rs1, cost - rs1.highestMemCost), LAMBDA rs2 :
                   IF Thrown(rs2) THEN rs2
                   ELSE [rs2 EXCEPT !.highestMemCost = cost,
                                    !.memGasPaid = @ + (cost - rs1.highestMemCost)])
              ELSE rs1)))

\* The bytes memLoad returns: the slice, filled with zeros up to length.
LoadBytes(memory, offset, length) ==
    LET loaded == Slice(memory, offset, offset + length)
    IN  loaded \o Zeros(length - Len(loaded))

\* memLoad returns [rs, data]; data is meaningless once rs has thrown.
memLoad(rs, offset, length) ==
    Let(subMemUsage(rs, offset, length), LAMBDA rs1 :
        IF Thrown(rs1) THEN [rs |-> rs1, data |-> <<>>]
        ELSE [rs |-> rs1, data |-> LoadBytes(rs1.memory, offset, length)])

\* runState.memory[offset + i] = val[valOffset + i] for i < valLength; a JS
\* array written past its end grows, and the holes read back as 0.
WriteBytes(memory, offset, val, valOffset, valLength) ==
    LET newLen == IF valLength > 0 THEN Max(Len(memory), offset + valLength)
                  ELSE Len(memory)
    IN  [i \in 1..newLen |->
            IF i > offset /\ i <= offset + valLength THEN val[valOffset + i - offset]
            ELSE IF i <= Len(memory) THEN memory[i]
            ELSE 0]

memStore_IgnoresLength(rs, offset, val, valOffset, length, skipSubMem) ==
    Let(IF skipSubMem # FALSE THEN subMemUsage(rs, offset, length) ELSE rs, LAMBDA rs1 :
        IF Thrown(rs1) THEN rs1
        ELSE IF valOffset > Len(val) THEN rs1
        ELSE [rs1 EXCEPT !.memory = WriteBytes(rs1.memory, offset, val, valOffset,
                                               Len(val) - valOffset)])

memStore(rs, offset, val, valOffset, length, skipSubMem) ==
    Let(IF skipSubMem # FALSE THEN subMemUsage(rs, offset, length) ELSE rs, LAMBDA rs1 :
        IF Thrown(rs1) THEN rs1
        ELSE IF valOffset > Len(val) THEN rs1
        ELSE [rs1 EXCEPT !.memory = WriteBytes(rs1.memory, offset, val, valOffset,
                                               Min(Len(val) - valOffset, length))])

(***************************************************************************)
(* Frames and the execution loop                                           *)
(***************************************************************************)
Address == {"A", "B", "C", "N"}
NoAddress == "none"

\* A selfdestruct set with no entry: address -> beneficiary.
NoneDestructed == [a \in Address |-> NoAddress]

callDataOfFrame == <<17, 34, 51>>
codeOfFrame == <<96, 1, 0>>

\* A fresh frame.  selfdestruct is a reference to the frame's selfdestruct
\* set: the index of that object in the variable selfdestruct, 1 being the
\* set the top-level execution was given.  memGasPaid is not a field of the code's runState: it adds
\* up what subMemUsage charged.  thrown is an exception in flight inside a
\* handler; returnValue is <<>> while undefined and <<data>> once set.
NewFrame(address, caller, callValue, depth, gas, contract) ==
    [ address |-> address, caller |-> caller, callValue |-> callValue,
      depth |-> depth, gasLeft |-> gas, gasRefund |-> 0,
      memoryWordCount |-> 0, highestMemCost |-> 0, memGasPaid |-> 0,
      memory |-> <<>>, stack |-> <<>>, stopped |-> FALSE,
      returnValue |-> <<>>, logs |-> <<>>, contract |-> contract,
      callData |-> callDataOfFrame, code |-> codeOfFrame,
      selfdestruct |-> 1,
      thrown |-> NoError, exceptionError |-> NoError ]

\* The loop runs a frame while it has neither stopped, returned nor failed.
Running(rs) ==
    /\ ~rs.stopped
    /\ rs.returnValue = <<>>
    /\ rs.exceptionError = NoError

\* The loop's completion callback done(err, result): a result is pushed, an
\* error ends the frame.  ret is <<>> for no result and <<buffer>> for one.
LoopDone(rs, err, ret) ==
    Let(IF ret # <<>> THEN [rs EXCEPT !.stack = Append(@, ret[1])] ELSE rs, LAMBDA rs1 :
        IF err # NoError /\ rs1.exceptionError = NoError
        THEN [rs1 EXCEPT !.exceptionError = err]
        ELSE rs1)

\* The loop around a synchronous handler: an exception thrown by the handler
\* is caught and completes the step with that error and no result.
LoopSync(r) ==
    IF Thrown(r.rs) THEN LoopDone([r.rs EXCEPT !.thrown = NoError], r.rs.thrown, <<>>)
    ELSE LoopDone(r.rs, NoError, r.ret)

\* utils.sha3 is not interpreted: a digest is its input behind the marker
\* 256, which no byte equals.
sha3(data) == <<256>> \o data

(***************************************************************************)
(* Memory-touching handlers.  Each returns [rs, ret].                      *)
(***************************************************************************)
MLOAD(pos, rs) ==
    Let(memLoad(rs, pos, 32), LAMBDA r : [rs |-> r.rs, ret |-> <<unpad(r.data)>>])

\* MSTORE that writes the word as it is, without padding it to 32 bytes.
MSTORE_NoPad(offset, word, rs) ==
    [rs |-> memStore(rs, offset, word, 0, 32, TRUE), ret |-> <<>>]

MSTORE(offset, word, rs) ==
    [rs |-> memStore(rs, offset, setLengthLeft(word, 32), 0, 32, TRUE), ret |-> <<>>]

MSTORE8(offset, byte, rs) ==
    [rs |-> memStore(rs, offset, Slice(byte, Len(byte) - 1, Len(byte)), 0, 1, TRUE),
     ret |-> <<>>]

SHA3(offset, length, rs) ==
    Let(memLoad(rs, offset, length), LAMBDA r :
        IF Thrown(r.rs) THEN [rs |-> r.rs, ret |-> <<>>]
        ELSE [rs |-> subGas(r.rs, sha3WordGas * divRound(length, 32)),
              ret |-> <<sha3(r.data)>>])

CALLDATACOPY(memOffset, dataOffset, dataLength, rs) ==
    Let(memStore(rs, memOffset, rs.callData, dataOffset, dataLength, TRUE), LAMBDA rs1 :
        IF Thrown(rs1) THEN [rs |-> rs1, ret |-> <<>>]
        ELSE [rs |-> subGas(rs1, copyGas * divRound(dataLength, 32)), ret |-> <<>>])

CODECOPY(memOffset, codeOffset, length, rs) ==
    Let(memStore(rs, memOffset, rs.code, codeOffset, length, TRUE), LAMBDA rs1 :
        IF Thrown(rs1) THEN [rs |-> rs1, ret |-> <<>>]
        ELSE [rs |-> subGas(rs1, copyGas * divRound(length, 32)), ret |-> <<>>])

\* EXTCODECOPY up to its call of stateManager.getContractCode.
EXTCODECOPY_charge(memOffset, length, rs) ==
    Let(subMemUsage(rs, memOffset, length), LAMBDA rs1 :
        IF Thrown(rs1) THEN rs1
        ELSE subGas(rs1, copyGas * divRound(length, 32)))

\* The getContractCode callback of EXTCODECOPY.
EXTCODECOPY_codeCb(err, extCode, memOffset, codeOffset, length, rs) ==
    LET code == IF err # NoError THEN <<0>> ELSE extCode
    IN  memStore(rs, memOffset, code, codeOffset, length, FALSE)

RETURN(offset, length, rs) ==
    Let(memLoad(rs, offset, length), LAMBDA r :
        IF Thrown(r.rs) THEN [rs |-> r.rs, ret |-> <<>>]
        ELSE [rs |-> [r.rs EXCEPT !.returnValue = <<r.data>>], ret |-> <<>>])

LOG(memOffset, memLength, topics, rs) ==
    Let(memLoad(rs, memOffset, memLength), LAMBDA r :
    Let(Len(topics), LAMBDA numOfTopics :
        IF Thrown(r.rs) THEN [rs |-> r.rs, ret |-> <<>>]
        ELSE Let(subGas(r.rs, logTopicGas * numOfTopics + memLength * logDataGas), LAMBDA rs1 :
             IF Thrown(rs1) THEN [rs |-> rs1, ret |-> <<>>]
             ELSE [rs |-> [rs1 EXCEPT !.logs =
                              Append(@, <<rs1.address,
                                          [i \in 1..numOfTopics |-> setLengthLeft(topics[i], 32)],
                                          r.data>>)],
                   ret |-> <<>>])))

STOP(rs) == [rs |-> [rs EXCEPT !.stopped = TRUE], ret |-> <<>>]

(***************************************************************************)
(* The state backend's accounts                                            *)
(***************************************************************************)
Account(exists, balance, nonce, code) ==
    [exists |-> exists, balance |-> balance, nonce |-> nonce, code |-> code]

\* accountIsEmpty: nonce = 0, balance = 0 and no code.
accountIsEmpty(account) ==
    account.nonce = 0 /\ account.balance = 0 /\ account.code = <<>>

(***************************************************************************)
(* The handler in progress.  op and phase say which handler runs and where *)
(* it is suspended; the other fields are its operands and what it has done *)
(* so far in this step.                                                    *)
(***************************************************************************)
\* What a call handler did (CallOut without the frame), for a step that is
\* no call.
NoCallRecord ==
    [ dones |-> <<>>, registered |-> FALSE, reached |-> FALSE, invoked |-> FALSE,
      callOptions |-> [value |-> 0], gBefore |-> 0, forwarded |-> 0,
      paidBefore |-> FALSE, stipendAdded |-> FALSE, oog |-> FALSE ]

\* No nested call has returned in this step.
NoResults == [gasUsed |-> 0, vm |-> [exception |-> 1]]

IdleH ==
    [ op |-> "none", phase |-> "idle",
      offset |-> 0, length |-> 0, codeOffset |-> 0, extAddress |-> NoAddress,
      gasAtStart |-> 0, memPaidAtStart |-> 0, inside |-> FALSE,
      toAddress |-> NoAddress, value |-> 0, requested |-> 0,
      localOpts |-> [inOffset |-> 0, inLength |-> 0, outOffset |-> 0, outLength |-> 0],
      applicable |-> FALSE, call |-> NoCallRecord, doneCalls |-> 0, doneErr |-> NoError,
      results |-> NoResults, checkpoint |-> <<>>, before |-> <<>> ]

\* The handler record of a step that starts now on frame rs.
StartH(rs, op) ==
    [IdleH EXCEPT !.op = op, !.gasAtStart = rs.gasLeft,
                  !.memPaidAtStart = rs.memGasPaid]

\* Whether the bytes [offset, offset + length) lie in the words rs has paid.
InsidePaid(rs, offset, length) ==
    /\ offset # Huge /\ length # Huge
    /\ length > 0
    /\ offset + length <= WordBytes * rs.memoryWordCount

Idle == h.phase = "idle"

\* The loop runs the next opcode: it charges the opcode's fee before it calls
\* the handler and traps when gasLeft falls below 0, so that no handler
\* starts in a frame whose gasLeft is below 0.
CanStep ==
    /\ Running(runState) /\ Idle /\ acc.steps < MaxSteps
    /\ runState.gasLeft >= 0

CanCall == CanStep /\ acc.calls < MaxCalls

(***************************************************************************)
(* Steps of the memory-touching handlers                                   *)
(***************************************************************************)
Offsets == {0, 33, Huge}
Lengths == {0, 1, 40}
Words == {<<7>>, <<1, 0>>}
SourceOffsets == {1}
TopicLists == {<<<<9>>>>}

\* The end of the byte range a completed access covered (0: none).
AccessedEnd(rs, offset, length) ==
    IF Thrown(rs) \/ length = 0 THEN 0 ELSE offset + length

\* A synchronous memory handler ran to its end (or threw).
MemCommit(op, offset, length, r) ==
    /\ runState' = LoopSync(r)
    /\ h' = [StartH(runState, op) EXCEPT !.offset = offset, !.length = length,
                                         !.inside = InsidePaid(runState, offset, length)]
    /\ acc' = [acc EXCEPT !.E = Max(@, AccessedEnd(r.rs, offset, length)),
                          !.steps = @ + 1]
    /\ UNCHANGED <<accounts, selfdestruct, callStack, pending, credits>>

Step_MLOAD ==
    \E pos \in Offsets :
        /\ CanStep
        /\ MemCommit("MLOAD", pos, 32, MLOAD(pos, runState))

Step_MSTORE ==
    \E offset \in Offsets, word \in Words :
        /\ CanStep
        /\ MemCommit("MSTORE", offset, 32, MSTORE(offset, word, runState))

Step_MSTORE8 ==
    \E offset \in Offsets, byte \in Words :
        /\ CanStep
        /\ MemCommit("MSTORE8", offset, 1, MSTORE8(offset, byte, runState))

Step_SHA3 ==
    \E offset \in Offsets, length \in Lengths :
        /\ CanStep
        /\ MemCommit("SHA3", offset, length, SHA3(offset, length, runState))

Step_CALLDATACOPY ==
    \E memOffset \in Offsets, dataOffset \in SourceOffsets, dataLength \in Lengths :
        /\ CanStep
        /\ MemCommit("CALLDATACOPY", memOffset, dataLength,
                     CALLDATACOPY(memOffset, dataOffset, dataLength, runState))

Step_CODECOPY ==
    \E memOffset \in Offsets, codeOffset \in SourceOffsets, length \in Lengths :
        /\ CanStep
        /\ MemCommit("CODECOPY", memOffset, length,
                     CODECOPY(memOffset, codeOffset, length, runState))

Step_RETURN ==
    \E offset \in Offsets, length \in Lengths :
        /\ CanStep
        /\ MemCommit("RETURN", offset, length, RETURN(offset, length, runState))

Step_LOG ==
    \E memOffset \in Offsets, memLength \in Lengths, topics \in TopicLists :
        /\ CanStep
        /\ MemCommit("LOG", memOffset, memLength,
                     LOG(memOffset, memLength, topics, runState))

\* EXTCODECOPY runs to its call of getContractCode and suspends there, unless
\* a charge threw.
Step_EXTCODECOPY ==
    \E address \in {"B"}, memOffset \in Offsets, codeOffset \in SourceOffsets,
       length \in Lengths :
        /\ CanStep
        /\ LET rs1 == EXTCODECOPY_charge(memOffset, length, runState)
           IN  /\ runState' = LoopSync([rs |-> rs1, ret |-> <<>>])
               /\ h' = [StartH(runState, "EXTCODECOPY") EXCEPT
                            !.phase = IF Thrown(rs1) THEN "idle" ELSE "getContractCode",
                            !.offset = memOffset, !.length = length,
                            !.codeOffset = codeOffset, !.extAddress = address,
                            !.inside = InsidePaid(runState, memOffset, length)]
               /\ acc' = [acc EXCEPT !.E = Max(@, AccessedEnd(rs1, memOffset, length)),
                                     !.steps = @ + 1]
        /\ UNCHANGED <<accounts, selfdestruct, callStack, pending, credits>>

\* The backend answers getContractCode: the copy is made and the step ends.
EXTCODECOPY_getContractCodeCb ==
    \E err \in {NoError, INTERNAL_ERROR} :
        /\ h.op = "EXTCODECOPY" /\ h.phase = "getContractCode"
        /\ runState' = LoopDone(EXTCODECOPY_codeCb(err, accounts[h.extAddress].code,
                                                   h.offset, h.codeOffset, h.length, runState),
                                err, <<>>)
        /\ h' = [h EXCEPT !.phase = "idle"]
        /\ UNCHANGED <<acc, accounts, selfdestruct, callStack, pending, credits>>

MemGas == {20, 450}

MemAccounts ==
    [a \in Address |->
        CASE a = "A" -> Account(TRUE, 0, 0, codeOfFrame)
          [] a = "B" -> Account(TRUE, 0, 0, <<7, 8, 9>>)
          [] OTHER -> Account(FALSE, 0, 0, <<>>)]

InitMem ==
    /\ runState \in {NewFrame("A", "B", 0, 0, g, [balance |-> 0, nonce |-> 0]) : g \in MemGas}
    /\ h = IdleH
    /\ acc = [E |-> 0, steps |-> 0, calls |-> 0]
    /\ accounts = MemAccounts
    /\ selfdestruct = <<NoneDestructed>>
    /\ callStack = <<>>
    /\ pending = <<>>
    /\ credits = [a \in Address |-> 0]

NextMem ==
    \/ Step_MLOAD
    \/ Step_MSTORE
    \/ Step_MSTORE8
    \/ Step_SHA3
    \/ Step_CALLDATACOPY
    \/ Step_CODECOPY
    \/ Step_EXTCODECOPY
    \/ EXTCODECOPY_getContractCodeCb
    \/ Step_RETURN
    \/ Step_LOG

SpecMem == InitMem /\ [][NextMem]_vars

(***************************************************************************)
(* The call/create protocol.  JS objects whose fields may be missing       *)
(* (callOptions, the results of runCall) are records whose domain says     *)
(* which fields are set.                                                    *)
(***************************************************************************)
HasField(rec, f) == f \in DOMAIN rec

SetField(rec, f, v) == [k \in DOMAIN rec \cup {f} |-> IF k = f THEN v ELSE rec[k]]

LocalOpts(inOffset, inLength, outOffset, outLength) ==
    [inOffset |-> inOffset, inLength |-> inLength,
     outOffset |-> outOffset, outLength |-> outLength]

\* checkCallMemCost returns [rs, callOptions].
checkCallMemCost(rs, callOptions, localOpts) ==
    Let(memLoad(rs, localOpts.inOffset, localOpts.inLength), LAMBDA r :
        IF Thrown(r.rs) THEN [rs |-> r.rs, callOptions |-> callOptions]
        ELSE Let(SetField(callOptions, "data", r.data), LAMBDA co1 :
             Let(IF BNIsTruthy(localOpts.outLength)
                 THEN subMemUsage(r.rs, localOpts.outOffset, localOpts.outLength)
                 ELSE r.rs, LAMBDA rs2 :
                 IF Thrown(rs2) THEN [rs |-> rs2, callOptions |-> co1]
                 ELSE [rs |-> rs2,
                       callOptions |-> IF ~HasField(co1, "gasLimit")
                                       THEN SetField(co1, "gasLimit", rs2.gasLeft)
                                       ELSE co1])))

checkOutOfGas(rs, callOptions) ==
    Let(rs.gasLeft - BNdiv(rs.gasLeft, GasDivisor), LAMBDA gasAllowed :
        IF callOptions.gasLimit > gasAllowed
        THEN [callOptions EXCEPT !.gasLimit = gasAllowed]
        ELSE callOptions)

\* The test of makeCall under which no call is made.
makeCallRefuses_DepthOffByOne(rs, callOptions) ==
    \/ rs.depth > stackLimit
    \/ /\ ~(HasField(callOptions, "delegatecall") /\ callOptions.delegatecall = TRUE)
       /\ rs.contract.balance < callOptions.value

\* makeCall's guard with the balance check applied to every call.
makeCallRefuses_AlwaysChecksBalance(rs, callOptions) ==
    \/ rs.depth >= stackLimit
    \/ rs.contract.balance < callOptions.value

makeCallRefuses(rs, callOptions) ==
    \/ rs.depth >= stackLimit
    \/ /\ ~(HasField(callOptions, "delegatecall") /\ callOptions.delegatecall = TRUE)
       /\ rs.contract.balance < callOptions.value

\* makeCall up to runCall: [rs, callOptions, invoked, dones].  When the call
\* is refused a 0 is pushed on the stack and cb() ends the step; otherwise
\* the nonce is raised for a create and runCall is to be invoked.
makeCall_DropsSet(rs, callOptions) ==
    Let(SetField(SetField(callOptions, "caller",
                          IF HasField(callOptions, "caller") THEN callOptions.caller
                          ELSE rs.address),
                 "depth", rs.depth + 1), LAMBDA co :
        IF makeCallRefuses(rs, co)
        THEN [rs |-> [rs EXCEPT !.stack = Append(@, <<0>>)], callOptions |-> co,
              invoked |-> FALSE, dones |-> <<[err |-> NoError, ret |-> <<>>]>>]
        ELSE [rs |-> IF ~HasField(co, "to")
                     THEN [rs EXCEPT !.contract.nonce = @ + 1]
                     ELSE rs,
              callOptions |-> co, invoked |-> TRUE, dones |-> <<>>])

makeCall(rs, callOptions) ==
    Let(SetField(SetField(SetField(callOptions, "caller",
                                   IF HasField(callOptions, "caller") THEN callOptions.caller
                                   ELSE rs.address),
                          "selfdestruct", rs.selfdestruct),
                 "depth", rs.depth + 1), LAMBDA co :
        IF makeCallRefuses(rs, co)
        THEN [rs |-> [rs EXCEPT !.stack = Append(@, <<0>>)], callOptions |-> co,
              invoked |-> FALSE, dones |-> <<[err |-> NoError, ret |-> <<>>]>>]
        ELSE [rs |-> IF ~HasField(co, "to")
                     THEN [rs EXCEPT !.contract.nonce = @ + 1]
                     ELSE rs,
              callOptions |-> co, invoked |-> TRUE, dones |-> <<>>])

\* The accountIsEmpty callback of CALL, registered with the closure cb =
\* [exists, value]: [rs, dones, oog].  Neither done(err) nor done(e.error)
\* is followed by a return.
accountIsEmptyCb(rs, cb, err, empty) ==
    Let(IF (~cb.exists \/ empty) /\ cb.value # 0
        THEN subGas(rs, callNewAccountGas)
        ELSE rs, LAMBDA rs1 :
        [rs |-> [rs1 EXCEPT !.thrown = NoError],
         dones |-> (IF err # NoError THEN <<[err |-> err, ret |-> <<>>]>> ELSE <<>>)
                   \o (IF Thrown(rs1) THEN <<[err |-> rs1.thrown, ret |-> <<>>]>> ELSE <<>>),
         oog |-> Thrown(rs1)])

\* What a call handler did up to the point where it ends or runCall starts.
\*   rs, dones      the frame, and the calls of done(err, result) made
\*   registered     CALL's accountIsEmpty callback is still to be delivered
\*   reached        the handler got to makeCall
\*   invoked        runCall is to be invoked with callOptions
\*   gBefore        gasLeft when checkOutOfGas ran; forwarded: the limit it left
\*   paidBefore     callNewAccountGas was charged before checkOutOfGas ran
\*   oog            the callNewAccountGas charge ran out of gas
NoCall ==
    [ dones |-> <<>>, registered |-> FALSE, reached |-> FALSE, invoked |-> FALSE,
      callOptions |-> [value |-> 0], gBefore |-> 0, forwarded |-> 0,
      paidBefore |-> FALSE, stipendAdded |-> FALSE, oog |-> FALSE ]

\* A CallOut without its frame.
CallRecord(out) == [k \in DOMAIN NoCall |-> out[k]]

CallOut(rs, fields) == [k \in {"rs"} \cup DOMAIN NoCall |->
                           IF k = "rs" THEN rs
                           ELSE IF k \in DOMAIN fields THEN fields[k]
                           ELSE NoCall[k]]

\* A handler threw: the loop catches it and ends the step with the error.
CallThrew(rs) ==
    CallOut([rs EXCEPT !.thrown = NoError],
            [dones |-> <<[err |-> rs.thrown, ret |-> <<>>]>>])

\* The part shared by the four handlers once the regions are charged and the
\* limit is capped: the stipend (CALL, CALLCODE with value) and makeCall.
FinishCall(rs, callOptions, stipend, fields) ==
    Let(makeCall(IF stipend THEN [rs EXCEPT !.gasLeft = @ + callStipend] ELSE rs,
                 IF stipend THEN [callOptions EXCEPT !.gasLimit = @ + callStipend]
                 ELSE callOptions), LAMBDA mk :
        CallOut(mk.rs,
                [k \in DOMAIN fields \cup {"dones", "reached", "invoked", "callOptions",
                                           "gBefore", "forwarded", "stipendAdded"} |->
                    CASE k = "dones" -> (IF HasField(fields, "dones") THEN fields.dones ELSE <<>>)
                                        \o mk.dones
                      [] k = "reached" -> TRUE
                      [] k = "invoked" -> mk.invoked
                      [] k = "callOptions" -> mk.callOptions
                      [] k = "gBefore" -> rs.gasLeft
                      [] k = "forwarded" -> callOptions.gasLimit
                      [] k = "stipendAdded" -> stipend
                      [] OTHER -> fields[k]]))

\* CALL.  backend is what the state backend answers in this step:
\* existsErr/exists for stateManager.exists, and for accountIsEmpty whether
\* its callback is delivered inside the call (sync) and then emptyErr/empty.
CALL(gasLimit, toAddress, value, inOffset, inLength, outOffset, outLength, rs, backend) ==
    Let(memLoad(rs, inOffset, inLength), LAMBDA r0 :
    Let([gasLimit |-> gasLimit, value |-> value, to |-> toAddress, data |-> r0.data],
        LAMBDA options :
    Let(LocalOpts(inOffset, inLength, outOffset, outLength), LAMBDA localOpts :
    Let(IF Thrown(r0.rs) THEN r0.rs
        ELSE IF value # 0 THEN subGas(r0.rs, callValueTransferGas)
        ELSE r0.rs, LAMBDA rs1 :
        IF Thrown(rs1) THEN CallThrew(rs1)
        ELSE IF backend.existsErr # NoError
        THEN CallOut(rs1, [dones |-> <<[err |-> backend.existsErr, ret |-> <<>>]>>])
        ELSE Let(IF backend.sync
                 THEN accountIsEmptyCb(rs1, [exists |-> backend.exists, value |-> value],
                                       backend.emptyErr, backend.empty)
                 ELSE [rs |-> rs1, dones |-> <<>>, oog |-> FALSE], LAMBDA cb :
             Let([dones |-> cb.dones, registered |-> ~backend.sync, oog |-> cb.oog,
                  paidBefore |-> cb.rs.gasLeft # rs1.gasLeft], LAMBDA early :
             Let(checkCallMemCost(cb.rs, options, localOpts), LAMBDA m :
                 IF Thrown(m.rs)
                 THEN CallOut([m.rs EXCEPT !.thrown = NoError],
                              [early EXCEPT !.dones = @ \o <<[err |-> m.rs.thrown, ret |-> <<>>]>>])
                 ELSE FinishCall(m.rs, checkOutOfGas(m.rs, m.callOptions), value # 0,
                                 early))))))))

\* CALLCODE; backend.codeErr is the answer of getContractCode.
CALLCODE(gas, toAddress, value, inOffset, inLength, outOffset, outLength, rs, backend) ==
    Let([gasLimit |-> gas, value |-> value, to |-> rs.address], LAMBDA options :
    Let(LocalOpts(inOffset, inLength, outOffset, outLength), LAMBDA localOpts :
    Let(IF value # 0 THEN subGas(rs, callValueTransferGas) ELSE rs, LAMBDA rs1 :
    Let(IF Thrown(rs1) THEN [rs |-> rs1, callOptions |-> options]
        ELSE checkCallMemCost(rs1, options, localOpts), LAMBDA m :
        IF Thrown(m.rs) THEN CallThrew(m.rs)
        ELSE Let(checkOutOfGas(m.rs, m.callOptions), LAMBDA co :
             IF backend.codeErr # NoError
             THEN CallOut(IF value # 0 THEN [m.rs EXCEPT !.gasLeft = @ + callStipend]
                          ELSE m.rs,
                          [dones |-> <<[err |-> backend.codeErr, ret |-> <<>>]>>,
                           stipendAdded |-> value # 0,
                           gBefore |-> m.rs.gasLeft, forwarded |-> co.gasLimit])
             ELSE FinishCall(m.rs, SetField(co, "code", backend.code), value # 0,
                             [dones |-> <<>>]))))))

\* DELEGATECALL; backend.codeErr is the answer of getAccount/getContractCode.
DELEGATECALL(gas, toAddress, inOffset, inLength, outOffset, outLength, rs, backend) ==
    Let([gasLimit |-> gas, value |-> rs.callValue, to |-> rs.address,
         caller |-> rs.caller, delegatecall |-> TRUE], LAMBDA options :
    Let(LocalOpts(inOffset, inLength, outOffset, outLength), LAMBDA localOpts :
    Let(checkCallMemCost(rs, options, localOpts), LAMBDA m :
        IF Thrown(m.rs) THEN CallThrew(m.rs)
        ELSE Let(checkOutOfGas(m.rs, m.callOptions), LAMBDA co :
             IF backend.codeErr # NoError
             THEN CallOut(m.rs, [dones |-> <<[err |-> backend.codeErr, ret |-> <<>>]>>,
                                 gBefore |-> m.rs.gasLeft, forwarded |-> co.gasLimit])
             ELSE FinishCall(m.rs, SetField(co, "code", backend.code), FALSE,
                             [dones |-> <<>>])))))

CREATE(value, offset, length, rs) ==
    Let(checkCallMemCost(rs, [value |-> value], LocalOpts(offset, length, 0, 0)), LAMBDA m :
        IF Thrown(m.rs) THEN CallThrew(m.rs)
        ELSE FinishCall(m.rs, checkOutOfGas(m.rs, m.callOptions), FALSE, [dones |-> <<>>]))

\* parseCallResults, with the account getAccount(runState.address) answers
\* on the normal path: [rs, err, ret].
parseCallResults_KeepsRefund(rs, err, results, localOpts, account) ==
    Let([rs EXCEPT !.gasLeft = @ - results.gasUsed], LAMBDA rs3 :
        IF ~HasField(results.vm, "exceptionError")
        THEN [rs |-> [memStore(rs3, localOpts.outOffset, results.vm.return, 0,
                               localOpts.outLength, FALSE)
                        EXCEPT !.contract = account],
              err |-> err, ret |-> <<<<results.vm.exception>>>>]
        ELSE [rs |-> rs3, err |-> err, ret |-> <<<<results.vm.exception>>>>])

\* parseCallResults that puts the callee's logs before the frame's own.
parseCallResults_LogsFirst(rs, err, results, localOpts, account) ==
    Let(IF HasField(results.vm, "logs")
        THEN [rs EXCEPT !.logs = results.vm.logs \o @]
        ELSE rs, LAMBDA rs1 :
    Let([rs1 EXCEPT !.gasLeft = @ - results.gasUsed], LAMBDA rs3 :
        IF ~HasField(results.vm, "exceptionError")
        THEN [rs |-> [memStore(rs3, localOpts.outOffset, results.vm.return, 0,
                               localOpts.outLength, FALSE)
                        EXCEPT !.contract = account],
              err |-> err, ret |-> <<<<results.vm.exception>>>>]
        ELSE [rs |-> rs3, err |-> err, ret |-> <<<<results.vm.exception>>>>]))

parseCallResults(rs, err, results, localOpts, account) ==
    Let(IF HasField(results.vm, "logs")
        THEN [rs EXCEPT !.logs = @ \o results.vm.logs]
        ELSE rs, LAMBDA rs1 :
    Let(IF HasField(results.vm, "gasRefund")
        THEN [rs1 EXCEPT !.gasRefund = @ + results.vm.gasRefund]
        ELSE rs1, LAMBDA rs2 :
    Let([rs2 EXCEPT !.gasLeft = @ - results.gasUsed], LAMBDA rs3 :
        IF ~HasField(results.vm, "exceptionError")
        THEN Let(IF HasField(results.vm, "return")
                 THEN memStore(rs3, localOpts.outOffset, results.vm.return, 0,
                               localOpts.outLength, FALSE)
                 ELSE rs3, LAMBDA rs4 :
                 [rs |-> [rs4 EXCEPT !.contract = account], err |-> err,
                  ret |-> IF HasField(results, "createdAddress")
                          THEN <<results.createdAddress>>
                          ELSE <<<<results.vm.exception>>>>])
        ELSE [rs |-> IF HasField(results.vm, "createdAddress")
                     THEN [rs3 EXCEPT !.contract.nonce = @ - 1]
                     ELSE rs3,
              err |-> err, ret |-> <<<<results.vm.exception>>>>])))

\* stateManager.cache.put(runState.address, runState.contract)
CachePut(accts, rs) ==
    [accts EXCEPT ![rs.address].balance = rs.contract.balance,
                  ![rs.address].nonce = rs.contract.nonce]

(***************************************************************************)
(* runCall, which opFns.js invokes and does not define: the value moves    *)
(* from the caller to the callee, the callee runs, and the results come    *)
(* back; an exceptional exit forfeits the gas limit, reverts the state to  *)
(* the checkpoint and carries neither a refund nor logs.                   *)
(***************************************************************************)
AddressList == <<"A", "B", "C", "N">>
NewAddress == "N"

\* The buffer of an address, for the stack.
AddressBuffer(a) == <<160 + (CHOOSE i \in DOMAIN AddressList : AddressList[i] = a)>>

Transfer(accts, from, to, value) ==
    IF from = to THEN accts
    ELSE [accts EXCEPT ![from].balance = @ - value,
                       ![to].balance = @ + value,
                       ![to].exists = TRUE]

RunCallStart(accts, callOptions) ==
    IF HasField(callOptions, "delegatecall") /\ callOptions.delegatecall THEN accts
    ELSE IF HasField(callOptions, "to")
    THEN Transfer(accts, callOptions.caller, callOptions.to, callOptions.value)
    ELSE Transfer(accts, callOptions.caller, NewAddress, callOptions.value)

ChildRefund == 15000
ChildReturn == <<5, 6>>
ChildLogs == << <<"B", <<>>, <<1>>>> >>

RunCallResults(callOptions) ==
    LET limit == callOptions.gasLimit
        failed == [gasUsed |-> limit,
                   vm |-> [exception |-> 0, exceptionError |-> OUT_OF_GAS,
                           logs |-> <<>>, return |-> <<>>]]
        ended(used, refund) ==
            LET res == [gasUsed |-> used,
                        vm |-> [exception |-> 1, gasRefund |-> refund,
                                logs |-> ChildLogs, return |-> ChildReturn]]
            IN  IF HasField(callOptions, "to") THEN res
                ELSE SetField(res, "createdAddress", AddressBuffer(NewAddress))
    IN  {failed} \cup
        (IF limit >= 0 THEN {ended(0, 0), ended(limit, ChildRefund)} ELSE {})

(***************************************************************************)
(* Steps of the call handlers                                              *)
(***************************************************************************)
BackendErrors == {NoError, INTERNAL_ERROR}

RECURSIVE ApplyDones(_, _)
\* The loop receives the calls of done in order.
ApplyDones(rs, dones) ==
    IF dones = <<>> THEN rs
    ELSE ApplyDones(LoopDone(rs, Head(dones).err, Head(dones).ret), Tail(dones))

RECURSIVE FirstError(_)
FirstError(dones) ==
    IF dones = <<>> THEN NoError
    ELSE IF Head(dones).err # NoError THEN Head(dones).err
    ELSE FirstError(Tail(dones))

\* The new-account charge of the specification applies to this call.
NewAccountApplies(accts, toAddress, value) ==
    (~accts[toAddress].exists \/ accountIsEmpty(accts[toAddress])) /\ value # 0

\* A call handler ran up to its end or up to runCall.
CallCommit(op, toAddress, value, requested, localOpts, out) ==
    LET put == CachePut(accounts, out.rs)
    IN  /\ runState' = ApplyDones(out.rs, out.dones)
        /\ accounts' = IF out.invoked THEN RunCallStart(put, out.callOptions) ELSE accounts
        /\ h' = [StartH(runState, op) EXCEPT
                    !.phase = IF out.invoked THEN "runCall" ELSE "idle",
                    !.toAddress = toAddress, !.value = value, !.requested = requested,
                    !.localOpts = localOpts,
                    !.applicable = IF op = "CALL"
                                   THEN NewAccountApplies(accounts, toAddress, value)
                                   ELSE FALSE,
                    !.call = CallRecord(out),
                    !.doneCalls = Len(out.dones),
                    !.doneErr = FirstError(out.dones),
                    !.checkpoint = IF out.invoked THEN put ELSE <<>>,
                    !.before = runState]
        /\ pending' = IF out.registered
                      THEN Append(pending, [step |-> acc.steps + 1,
                                            toAddress |-> toAddress,
                                            exists |-> accounts[toAddress].exists,
                                            value |-> value])
                      ELSE pending
        /\ acc' = [acc EXCEPT !.steps = @ + 1, !.calls = @ + 1]
        /\ UNCHANGED <<selfdestruct, callStack, credits>>

CallGasLimits == {1000, 1000000}
Targets == {"B", "C"}
Values == {0, 1}
InRegions == {<<0, 1>>}
OutRegions == {<<0, 1>>, <<33, 40>>}

\* What the backend may answer to CALL's exists and accountIsEmpty.
CallBackends(toAddress) ==
    LET answer(existsErr, sync, emptyErr) ==
            [existsErr |-> existsErr, exists |-> accounts[toAddress].exists,
             sync |-> sync, emptyErr |-> emptyErr,
             empty |-> emptyErr = NoError /\ accountIsEmpty(accounts[toAddress])]
    IN  {answer(INTERNAL_ERROR, FALSE, NoError), answer(NoError, FALSE, NoError)}
        \cup {answer(NoError, TRUE, e) : e \in BackendErrors}

CodeBackends(toAddress) ==
    {[codeErr |-> e, code |-> accounts[toAddress].code] : e \in BackendErrors}

Step_CALL ==
    \E gasLimit \in CallGasLimits, toAddress \in Targets, value \in Values,
       in \in InRegions, out \in OutRegions :
        \E backend \in CallBackends(toAddress) :
            /\ CanCall
            /\ CallCommit("CALL", toAddress, value, gasLimit,
                          LocalOpts(in[1], in[2], out[1], out[2]),
                          CALL(gasLimit, toAddress, value, in[1], in[2], out[1], out[2],
                               runState, backend))

Step_CALLCODE ==
    \E gas \in {1000000}, toAddress \in {"B"}, value \in Values,
       in \in InRegions, out \in {<<0, 1>>} :
        \E backend \in CodeBackends(toAddress) :
            /\ CanCall
            /\ CallCommit("CALLCODE", toAddress, value, gas,
                          LocalOpts(in[1], in[2], out[1], out[2]),
                          CALLCODE(gas, toAddress, value, in[1], in[2], out[1], out[2],
                                   runState, backend))

Step_DELEGATECALL ==
    \E gas \in {1000000}, toAddress \in {"B"}, in \in InRegions, out \in {<<0, 1>>} :
        \E backend \in CodeBackends(toAddress) :
            /\ CanCall
            /\ CallCommit("DELEGATECALL", toAddress, runState.callValue, gas,
                          LocalOpts(in[1], in[2], out[1], out[2]),
                          DELEGATECALL(gas, toAddress, in[1], in[2], out[1], out[2],
                                       runState, backend))

Step_CREATE ==
    \E value \in Values, in \in InRegions :
        /\ CanCall
        /\ CallCommit("CREATE", NoAddress, value, runState.gasLeft,
                      LocalOpts(in[1], in[2], 0, 0),
                      CREATE(value, in[1], in[2], runState))

\* The backend delivers an accountIsEmpty callback after CALL went on.
AccountIsEmptyLate ==
    \E i \in DOMAIN pending, err \in BackendErrors :
        LET cb == pending[i]
            empty == err = NoError /\ accountIsEmpty(accounts[cb.toAddress])
            r == accountIsEmptyCb(runState, cb, err, empty)
            mine == cb.step = acc.steps
        IN  /\ runState' = ApplyDones(r.rs, r.dones)
            /\ pending' = [j \in 1..(Len(pending) - 1) |->
                              IF j < i THEN pending[j] ELSE pending[j + 1]]
            /\ h' = IF mine
                    THEN [h EXCEPT !.call.dones = @ \o r.dones,
                                   !.call.oog = @ \/ r.oog,
                                   !.doneCalls = @ + Len(r.dones),
                                   !.doneErr = IF @ # NoError THEN @ ELSE FirstError(r.dones)]
                    ELSE h
            /\ UNCHANGED <<acc, accounts, selfdestruct, callStack, credits>>

\* runCall calls back: parseCallResults, getAccount, and the step ends.
RunCallReturns ==
    /\ h.phase = "runCall"
    /\ \E results \in RunCallResults(h.call.callOptions) :
        LET accts == IF HasField(results.vm, "exceptionError") THEN h.checkpoint
                     ELSE accounts
            account == [balance |-> accts[runState.address].balance,
                        nonce |-> accts[runState.address].nonce]
            p == parseCallResults(runState, NoError, results, h.localOpts, account)
        IN  /\ runState' = LoopDone(p.rs, p.err, p.ret)
            /\ accounts' = accts
            /\ h' = [h EXCEPT !.phase = "idle", !.results = results,
                              !.call.dones = Append(@, [err |-> p.err, ret |-> p.ret]),
                              !.doneCalls = @ + 1,
                              !.doneErr = IF @ # NoError THEN @ ELSE p.err]
            /\ UNCHANGED <<acc, selfdestruct, callStack, pending, credits>>

\* A store before the calls, so that the frame's memory holds bytes.
Call_MSTORE ==
    /\ CanStep
    /\ acc.steps = 0
    /\ MemCommit("MSTORE", 33, 32, MSTORE(33, <<7>>, runState))

CallAccounts ==
    [a \in {"A", "B", "C", "N"} |->
        CASE a = "A" -> Account(TRUE, 0, 1, codeOfFrame)
          [] a = "B" -> Account(TRUE, 5, 1, <<7, 8, 9>>)
          [] OTHER -> Account(FALSE, 0, 0, <<>>)]

\* The frames the call steps start from: [gas, depth, balance].
CallFrames ==
    { <<30000, 0, 1>>, <<100000, 0, 1>>, <<100000, stackLimit, 1>>, <<100000, 0, 0>> }

Init ==
    \E f \in CallFrames :
        /\ runState = NewFrame("A", "B", 1, f[2], f[1], [balance |-> f[3], nonce |-> 1])
        /\ accounts = [CallAccounts EXCEPT !["A"].balance = f[3]]
        /\ h = IdleH
        /\ acc = [E |-> 0, steps |-> 0, calls |-> 0]
        /\ selfdestruct = <<NoneDestructed>>
        /\ callStack = <<>>
        /\ pending = <<>>
        /\ credits = [a \in Address |-> 0]

Next ==
    \/ Step_CALL
    \/ Step_CALLCODE
    \/ Step_DELEGATECALL
    \/ Step_CREATE
    \/ AccountIsEmptyLate
    \/ RunCallReturns
    \/ Call_MSTORE

Spec == Init /\ [][Next]_vars

(***************************************************************************)
(* SELFDESTRUCT, and a tree of frames around one selfdestruct set          *)
(***************************************************************************)
\* SELFDESTRUCT that enters the set, credits the refund and stops before it
\* charges for the new account.
SELFDESTRUCT_MarksFirst(selfdestructToAddress, rs, set, accts, backend) ==
    Let(accts[selfdestructToAddress], LAMBDA toAccount :
    Let([rs EXCEPT !.gasRefund = @ + suicideRefundGas, !.stopped = TRUE], LAMBDA marked :
    Let(IF rs.contract.balance > 0 /\ (~toAccount.exists \/ accountIsEmpty(toAccount))
        THEN subGas(marked, callNewAccountGas)
        ELSE marked, LAMBDA rs1 :
        [rs |-> [rs1 EXCEPT !.thrown = NoError],
         set |-> [set EXCEPT ![rs.address] = selfdestructToAddress],
         accts |-> accts,
         err |-> IF Thrown(rs1) THEN rs1.thrown ELSE backend.getErr,
         credited |-> TRUE])))

\* SELFDESTRUCT that enters the set and stops, and moves no balance.
SELFDESTRUCT_NoTransfer(selfdestructToAddress, rs, set, accts, backend) ==
    [rs |-> [rs EXCEPT !.stopped = TRUE],
     set |-> [set EXCEPT ![rs.address] = selfdestructToAddress],
     accts |-> accts, err |-> NoError, credited |-> FALSE]

\* SELFDESTRUCT: [rs, set, accts, err, credited].  set is the object
\* runState.selfdestruct refers to; backend holds the errors getAccount,
\* accountIsEmpty and the putAccountBalance series answer with.  credited
\* tells that suicideRefundGas was added to gasRefund.
SELFDESTRUCT(selfdestructToAddress, rs, set, accts, backend) ==
    Let(rs.contract, LAMBDA contract :
    Let(rs.address, LAMBDA contractAddress :
    Let(accts[selfdestructToAddress], LAMBDA toAccount :
        IF backend.getErr # NoError
        THEN [rs |-> rs, set |-> set, accts |-> accts, err |-> backend.getErr,
              credited |-> FALSE]
        ELSE IF backend.emptyErr # NoError
        THEN [rs |-> rs, set |-> set, accts |-> accts, err |-> backend.emptyErr,
              credited |-> FALSE]
        ELSE Let(IF contract.balance > 0
                    /\ (~toAccount.exists \/ accountIsEmpty(toAccount))
                 THEN subGas(rs, callNewAccountGas)
                 ELSE rs, LAMBDA rs1 :
             IF Thrown(rs1)
             THEN [rs |-> [rs1 EXCEPT !.thrown = NoError], set |-> set, accts |-> accts,
                   err |-> rs1.thrown, credited |-> FALSE]
             ELSE Let(set[contractAddress] = NoAddress, LAMBDA first :
                  Let(contract.balance + toAccount.balance, LAMBDA newBalance :
                      [rs |-> [rs1 EXCEPT !.gasRefund = IF first THEN @ + suicideRefundGas
                                                         ELSE @,
                                          !.stopped = TRUE],
                       set |-> [set EXCEPT ![contractAddress] = selfdestructToAddress],
                       accts |-> IF backend.putErr # NoError THEN accts
                                 ELSE [[accts EXCEPT
                                          ![selfdestructToAddress].balance = newBalance,
                                          ![selfdestructToAddress].exists = TRUE]
                                        EXCEPT ![contractAddress].balance = 0],
                       err |-> backend.putErr,
                       credited |-> first]))))))

MaxDestructSteps == 4
MaxNesting == 2

Beneficiaries == {"B", "C"}
NestedTargets == {"A", "B"}
NestedCallGas == 50000
NestedDelegateGas == 20000

DestructBackends ==
    {[getErr |-> e[1], emptyErr |-> e[2], putErr |-> e[3]] :
        e \in {<<NoError, NoError, NoError>>, <<INTERNAL_ERROR, NoError, NoError>>,
               <<NoError, INTERNAL_ERROR, NoError>>, <<NoError, NoError, INTERNAL_ERROR>>}}

NoCredits == [a \in Address |-> 0]

CanDestructStep == Running(runState) /\ acc.steps < MaxDestructSteps

Step_SELFDESTRUCT ==
    \E selfdestructToAddress \in Beneficiaries, backend \in DestructBackends :
        LET r == SELFDESTRUCT(selfdestructToAddress, runState,
                              selfdestruct[runState.selfdestruct], accounts, backend)
        IN  /\ CanDestructStep
            /\ runState' = LoopDone(r.rs, r.err, <<>>)
            /\ selfdestruct' = [selfdestruct EXCEPT ![runState.selfdestruct] = r.set]
            /\ accounts' = r.accts
            /\ credits' = IF r.credited
                          THEN [credits EXCEPT ![runState.address] = @ + 1]
                          ELSE credits
            /\ acc' = [acc EXCEPT !.steps = @ + 1,
                                  !.ran[runState.address] = IF r.rs.stopped THEN @ + 1 ELSE @]
            /\ h' = [StartH(runState, "SELFDESTRUCT") EXCEPT
                         !.toAddress = selfdestructToAddress,
                         !.before = runState, !.checkpoint = accounts]
            /\ UNCHANGED <<callStack, pending>>

Step_STOP ==
    /\ CanDestructStep
    /\ runState' = LoopSync(STOP(runState))
    /\ acc' = [acc EXCEPT !.steps = @ + 1]
    /\ h' = IdleH
    /\ UNCHANGED <<accounts, selfdestruct, callStack, pending, credits>>

\* runCall starts the frame of a call that makeCall let through: the value
\* moves, and the callee's frame takes the selfdestruct set the call options
\* name, or a new empty one when they name none.  The caller is suspended
\* with what an exceptional exit of the callee restores.
EnterFrame(out, localOpts) ==
    LET co == out.callOptions
        put == CachePut(accounts, out.rs)
        started == RunCallStart(put, co)
        shared == HasField(co, "selfdestruct")
        ref == IF shared THEN co.selfdestruct ELSE Len(selfdestruct) + 1
        contract == [balance |-> started[co.to].balance, nonce |-> started[co.to].nonce]
    IN  /\ runState' = [NewFrame(co.to, co.caller, co.value, co.depth, co.gasLimit, contract)
                           EXCEPT !.selfdestruct = ref]
        /\ callStack' = Append(callStack,
                               [rs |-> out.rs, callOptions |-> co, localOpts |-> localOpts,
                                credits |-> credits, checkpoint |-> put,
                                set |-> IF shared THEN selfdestruct[ref] ELSE NoneDestructed])
        /\ selfdestruct' = IF shared THEN selfdestruct
                           ELSE Append(selfdestruct, NoneDestructed)
        /\ accounts' = started
        /\ credits' = NoCredits

\* A call handler of a frame of the tree ran: the callee's frame is entered,
\* or the step ends in the caller.
NestedCommit(out, localOpts) ==
    /\ IF out.invoked
       THEN EnterFrame(out, localOpts)
       ELSE /\ runState' = ApplyDones(out.rs, out.dones)
            /\ UNCHANGED <<accounts, selfdestruct, callStack, credits>>
    /\ acc' = [acc EXCEPT !.steps = @ + 1]
    /\ h' = IdleH
    /\ UNCHANGED pending

CanNest == CanDestructStep /\ Len(callStack) < MaxNesting

Nested_CALL ==
    \E toAddress \in NestedTargets :
        LET backend == [existsErr |-> NoError, exists |-> accounts[toAddress].exists,
                        sync |-> TRUE, emptyErr |-> NoError,
                        empty |-> accountIsEmpty(accounts[toAddress])]
        IN  /\ CanNest
            /\ NestedCommit(CALL(NestedCallGas, toAddress, 0, 0, 0, 0, 0, runState, backend),
                            LocalOpts(0, 0, 0, 0))

Nested_DELEGATECALL ==
    \E toAddress \in {"B"} :
        LET backend == [codeErr |-> NoError, code |-> accounts[toAddress].code]
        IN  /\ CanNest
            /\ NestedCommit(DELEGATECALL(NestedDelegateGas, toAddress, 0, 0, 0, 0,
                                         runState, backend),
                            LocalOpts(0, 0, 0, 0))

\* The results runCall hands to parseCallResults when the callee's frame rs
\* has ended: an exceptional exit uses up the gas limit and carries neither
\* refund nor logs.
FrameResults(rs, callOptions) ==
    IF rs.exceptionError # NoError
    THEN [gasUsed |-> callOptions.gasLimit,
          vm |-> [exception |-> 0, exceptionError |-> rs.exceptionError,
                  logs |-> <<>>, return |-> <<>>]]
    ELSE [gasUsed |-> callOptions.gasLimit - rs.gasLeft,
          vm |-> [exception |-> 1, gasRefund |-> rs.gasRefund, logs |-> rs.logs,
                  return |-> IF rs.returnValue = <<>> THEN <<>> ELSE rs.returnValue[1]]]

\* The callee's frame has ended and its caller goes on.  After an
\* exceptional exit the accounts are back at the checkpoint; the entries the
\* callee's subtree put into the selfdestruct set stay or are taken back
\* with the checkpoint (revertSet).
FrameReturns ==
    /\ callStack # <<>>
    /\ ~Running(runState)
    /\ \E revertSet \in BOOLEAN :
        LET top == callStack[Len(callStack)]
            results == FrameResults(runState, top.callOptions)
            failed == HasField(results.vm, "exceptionError")
            accts == IF failed THEN top.checkpoint ELSE accounts
            account == [balance |-> accts[top.rs.address].balance,
                        nonce |-> accts[top.rs.address].nonce]
            p == parseCallResults(top.rs, NoError, results, top.localOpts, account)
        IN  /\ revertSet => failed
            /\ runState' = LoopDone(p.rs, p.err, p.ret)
            /\ accounts' = accts
            /\ selfdestruct' = IF revertSet
                               THEN [selfdestruct EXCEPT ![runState.selfdestruct] = top.set]
                               ELSE selfdestruct
            /\ credits' = IF failed THEN top.credits
                          ELSE [a \in Address |-> top.credits[a] + credits[a]]
            /\ callStack' = SubSeq(callStack, 1, Len(callStack) - 1)
            /\ h' = IdleH
            /\ UNCHANGED <<acc, pending>>

InitSD ==
    /\ runState = NewFrame("A", "B", 0, 0, 100000, [balance |-> 1, nonce |-> 1])
    /\ accounts = [CallAccounts EXCEPT !["A"].balance = 1]
    /\ h = IdleH
    /\ acc = [E |-> 0, steps |-> 0, calls |-> 0, ran |-> NoCredits]
    /\ selfdestruct = <<NoneDestructed>>
    /\ callStack = <<>>
    /\ pending = <<>>
    /\ credits = NoCredits

NextSD ==
    \/ Step_SELFDESTRUCT
    \/ Step_STOP
    \/ Nested_CALL
    \/ Nested_DELEGATECALL
    \/ FrameReturns

SpecSD == InitSD /\ [][NextSD]_vars

(***************************************************************************)
(* JUMP and JUMPI                                                          *)
(***************************************************************************)
\* ERROR.INVALID_JUMP; the handlers append the text of describeLocation.
INVALID_JUMP == "invalid JUMP"

JUMPDEST_OP == 91
PUSH1_OP == 96
PUSH32_OP == 127

RECURSIVE ScanJumps(_, _)
\* validJumps is built once per code buffer: scan forward from the 0-based
\* position i, skip the n bytes after a PUSHn, record the positions of 0x5B.
ScanJumps(code, i) ==
    IF i >= Len(code) THEN {}
    ELSE Let(code[i + 1], LAMBDA op :
         IF op >= PUSH1_OP /\ op <= PUSH32_OP
         THEN ScanJumps(code, i + 1 + (op - PUSH1_OP + 1))
         ELSE IF op = JUMPDEST_OP THEN {i} \cup ScanJumps(code, i + 1)
         ELSE ScanJumps(code, i + 1))

\* checks if a jump is valid given a destination
jumpIsValid_Always(rs, dest) == TRUE

jumpIsValid(rs, dest) == dest \in rs.validJumps

JUMP(dest, rs) ==
    IF dest > Len(rs.code) THEN [rs |-> trap(rs, INVALID_JUMP), ret |-> <<>>]
    ELSE IF ~jumpIsValid(rs, dest) THEN [rs |-> trap(rs, INVALID_JUMP), ret |-> <<>>]
    ELSE [rs |-> [rs EXCEPT !.programCounter = dest], ret |-> <<>>]

JUMPI(dest, cond, rs) ==
    IF cond # 0
    THEN IF dest > Len(rs.code) THEN [rs |-> trap(rs, INVALID_JUMP), ret |-> <<>>]
         ELSE IF ~jumpIsValid(rs, dest) THEN [rs |-> trap(rs, INVALID_JUMP), ret |-> <<>>]
         ELSE [rs |-> [rs EXCEPT !.programCounter = dest], ret |-> <<>>]
    ELSE [rs |-> rs, ret |-> <<>>]

\* A synchronous handler ran as one step of the loop on operands args.
SyncCommit(op, args, r) ==
    /\ runState' = LoopSync(r)
    /\ h' = SetField([StartH(runState, op) EXCEPT !.before = runState], "args", args)
    /\ acc' = [acc EXCEPT !.steps = @ + 1]
    /\ UNCHANGED <<accounts, selfdestruct, callStack, pending, credits>>

\* PUSH1 0x5B; JUMPDEST; PUSH2 0x5B 0x00; JUMPDEST; STOP
JumpCode == <<96, 91, 91, 97, 91, 0, 91, 0>>

\* Destinations: into the code, at its end, behind it, above MAX_INT.
Destinations == (0..(Len(JumpCode) + 1)) \cup {Huge}
Conditions == {0, 1}

Step_JUMP ==
    \E dest \in Destinations :
        /\ CanStep
        /\ SyncCommit("JUMP", <<dest>>, JUMP(dest, runState))

Step_JUMPI ==
    \E dest \in Destinations, cond \in Conditions :
        /\ CanStep
        /\ SyncCommit("JUMPI", <<dest, cond>>, JUMPI(dest, cond, runState))

InitJump ==
    /\ runState = SetField(SetField([NewFrame("A", "B", 0, 0, 1000, [balance |-> 0, nonce |-> 0])
                                        EXCEPT !.code = JumpCode],
                                    "programCounter", 0),
                           "validJumps", ScanJumps(JumpCode, 0))
    /\ h = IdleH
    /\ acc = [E |-> 0, steps |-> 0, calls |-> 0]
    /\ accounts = MemAccounts
    /\ selfdestruct = <<NoneDestructed>>
    /\ callStack = <<>>
    /\ pending = <<>>
    /\ credits = [a \in Address |-> 0]

NextJump ==
    \/ Step_JUMP
    \/ Step_JUMPI

SpecJump == InitJump /\ [][NextJump]_vars

(***************************************************************************)
(* SLOAD and SSTORE.  The storage of an account is the field storage of    *)
(* its record in accounts: a map from 32-byte keys to values, in which an  *)
(* absent key is an empty value.                                           *)
(***************************************************************************)
sstoreSetGas == 20000
sstoreResetGas == 5000
sstoreRefundGas == 15000

\* stateManager.getContractStorage: the value under key, empty when absent.
getContractStorage(accts, address, key) ==
    IF key \in DOMAIN accts[address].storage
    THEN accts[address].storage[key]
    ELSE <<>>

\* stateManager.putContractStorage with an empty value keeps the key and
\* stores the empty value in it.
putContractStorage_KeepsEmpty(accts, address, key, value) ==
    [accts EXCEPT ![address].storage =
        [k \in DOMAIN @ \cup {key} |-> IF k = key THEN value ELSE @[k]]]

\* stateManager.putContractStorage: an empty value deletes the key.
putContractStorage(accts, address, key, value) ==
    [accts EXCEPT ![address].storage =
        IF value = <<>>
        THEN [k \in DOMAIN @ \ {key} |-> @[k]]
        ELSE [k \in DOMAIN @ \cup {key} |-> IF k = key THEN value ELSE @[k]]]

\* SLOAD returns [err, ret]; getErr is the error of the backend's read.
SLOAD(key, rs, accts, getErr) ==
    Let(getContractStorage(accts, rs.address, setLengthLeft(key, WordBytes)), LAMBDA value :
        IF getErr # NoError THEN [err |-> getErr, ret |-> <<>>]
        ELSE [err |-> NoError, ret |-> <<IF Len(value) # 0 THEN value ELSE <<0>>>>])

\* The fee branch of SSTORE (lines 399-409) on the frame.
SSTORE_charge(value, found, rs) ==
    IF Len(value) = 0 /\ Len(found) = 0 THEN subGas(rs, sstoreResetGas)
    ELSE IF Len(value) = 0 /\ Len(found) # 0
    THEN Let(subGas(rs, sstoreResetGas), LAMBDA rs1 :
             IF Thrown(rs1) THEN rs1
             ELSE [rs1 EXCEPT !.gasRefund = @ + sstoreRefundGas])
    ELSE IF Len(value) # 0 /\ Len(found) = 0 THEN subGas(rs, sstoreSetGas)
    ELSE subGas(rs, sstoreResetGas)

\* SSTORE returns [rs, accts, err]; getErr and putErr are the errors of the
\* backend's read and write.
SSTORE(key, val, rs, accts, getErr, putErr) ==
    Let(setLengthLeft(key, WordBytes), LAMBDA key32 :
    Let(unpad(val), LAMBDA value :
        IF getErr # NoError THEN [rs |-> rs, accts |-> accts, err |-> getErr]
        ELSE Let(SSTORE_charge(value, getContractStorage(accts, rs.address, key32), rs),
                 LAMBDA rs1 :
             IF Thrown(rs1)
             THEN [rs |-> [rs1 EXCEPT !.thrown = NoError], accts |-> accts,
                   err |-> rs1.thrown]
             ELSE IF putErr # NoError
             THEN [rs |-> rs1, accts |-> accts, err |-> putErr]
             ELSE Let(putContractStorage(accts, rs.address, key32, value), LAMBDA accts1 :
                  [rs |-> [rs1 EXCEPT !.contract =
                               [balance |-> accts1[rs.address].balance,
                                nonce |-> accts1[rs.address].nonce]],
                   accts |-> accts1, err |-> NoError]))))

\* Operands: the same key in two lengths and another key; zero and nonzero
\* values in several lengths.
StorageKeys == {<<1>>, <<0, 1>>, <<2>>}
StorageValues == {<<>>, <<0>>, <<0, 0>>, <<5>>, <<0, 5>>, <<1, 0>>}

\* The step of the loop that ran before the one h describes.
PrevStep ==
    [op |-> h.op,
     args |-> IF HasField(h, "args") THEN h.args ELSE <<>>,
     well |-> runState.exceptionError = NoError]

StorageCommit(op, args, rs1, err, ret, accts1) ==
    /\ runState' = LoopDone(rs1, err, ret)
    /\ h' = SetField(SetField(SetField([StartH(runState, op) EXCEPT !.before = runState],
                                       "args", args),
                              "prev", PrevStep),
                     "storageBefore", accounts[runState.address].storage)
    /\ accounts' = accts1
    /\ acc' = [acc EXCEPT !.steps = @ + 1]
    /\ UNCHANGED <<selfdestruct, callStack, pending, credits>>

Step_SLOAD ==
    \E key \in StorageKeys, getErr \in BackendErrors :
        /\ CanStep
        /\ \E r \in {SLOAD(key, runState, accounts, getErr)} :
               StorageCommit("SLOAD", <<key>>, runState, r.err, r.ret, accounts)

Step_SSTORE ==
    \E key \in StorageKeys, val \in StorageValues, getErr, putErr \in BackendErrors :
        /\ CanStep
        /\ \E r \in {SSTORE(key, val, runState, accounts, getErr, putErr)} :
               StorageCommit("SSTORE", <<key, val>>, r.rs, r.err, <<>>, r.accts)

\* Gas for no store, for a reset and not a set, and for two sets.
StorageGas == {4000, 6000, 50000}

\* The contract's storage at start: empty, or one value under the key 1.
StorageAtStart == {<<>>, setLengthLeft(<<1>>, WordBytes) :> <<9>>}

InitStorage ==
    /\ runState \in {NewFrame("A", "B", 0, 0, g, [balance |-> 0, nonce |-> 0]) : g \in StorageGas}
    /\ h = IdleH
    /\ acc = [E |-> 0, steps |-> 0, calls |-> 0]
    /\ accounts \in {[a \in Address |-> SetField(MemAccounts[a], "storage",
                                                 IF a = "A" THEN s ELSE <<>>)] :
                        s \in StorageAtStart}
    /\ selfdestruct = <<NoneDestructed>>
    /\ callStack = <<>>
    /\ pending = <<>>
    /\ credits = [a \in Address |-> 0]

NextStorage ==
    \/ Step_SLOAD
    \/ Step_SSTORE

SpecStorage == InitStorage /\ [][NextStorage]_vars

(***************************************************************************)
(* A word stored and loaded again                                          *)
(***************************************************************************)
MaxWordSteps == 3

\* A word of 32 bytes none of which is 0.
FullWord == [i \in 1..WordBytes |-> i]

\* Memory offsets: word-aligned, unaligned, behind the first word, above
\* MAX_INT.  Words: empty, short with a leading zero, full.
WordOffsets == {0, 1, 33, Huge}
StoredWords == {<<>>, <<0, 3>>, FullWord}

WordCommit(op, args, r) ==
    /\ runState' = LoopSync(r)
    /\ h' = SetField(SetField([StartH(runState, op) EXCEPT !.before = runState],
                              "args", args),
                     "prev", PrevStep)
    /\ acc' = [acc EXCEPT !.steps = @ + 1]
    /\ UNCHANGED <<accounts, selfdestruct, callStack, pending, credits>>

CanWordStep == Running(runState) /\ Idle /\ acc.steps < MaxWordSteps

Word_MSTORE ==
    \E offset \in WordOffsets, word \in StoredWords :
        /\ CanWordStep
        /\ WordCommit("MSTORE", <<offset, word>>, MSTORE(offset, word, runState))

Word_MLOAD ==
    \E pos \in WordOffsets :
        /\ CanWordStep
        /\ WordCommit("MLOAD", <<pos>>, MLOAD(pos, runState))

InitWord ==
    /\ runState = NewFrame("A", "B", 0, 0, 1000, [balance |-> 0, nonce |-> 0])
    /\ h = IdleH
    /\ acc = [E |-> 0, steps |-> 0, calls |-> 0]
    /\ accounts = MemAccounts
    /\ selfdestruct = <<NoneDestructed>>
    /\ callStack = <<>>
    /\ pending = <<>>
    /\ credits = [a \in Address |-> 0]

NextWord ==
    \/ Word_MSTORE
    \/ Word_MLOAD

SpecWord == InitWord /\ [][NextWord]_vars

(***************************************************************************)
(* Arithmetic.  A word has ArithBytes bytes here: the handlers' 32 is      *)
(* ArithBytes and their 256 (bits) is WordBits, so that utils.TWO_POW256   *)
(* is 256^ArithBytes and the numbers stay within the checker's integers.   *)
(***************************************************************************)
ArithBytes == 2
WordBits == 8 * ArithBytes
TWO_POW256 == 256 ^ ArithBytes

RECURSIVE BN(_)
\* new BN(buffer): the number of a big-endian byte string.
BN(s) == IF s = <<>> THEN 0 ELSE BN(SubSeq(s, 1, Len(s) - 1)) * 256 + s[Len(s)]

RECURSIVE byteLength(_)
\* BN.byteLength: 0 for 0.
byteLength(n) == IF n = 0 THEN 0 ELSE 1 + byteLength(n \div 256)

\* BN.toArray('be', length); length 0 stands for no length given: as many
\* bytes as the number has, and one for 0.
toArray(n, length) ==
    Let(IF length = 0 THEN Max(1, byteLength(n)) ELSE length, LAMBDA len :
        [i \in 1..len |-> (n \div (256 ^ (len - i))) % 256])

\* BN.fromTwos and BN.toTwos
fromTwos(n, width) == IF n \div (2 ^ (width - 1)) % 2 = 1 THEN 0 - (2 ^ width - n) ELSE n
toTwos(n, width) == IF n < 0 THEN 2 ^ width - (0 - n) ELSE n

\* utils.fromSigned that reads the word as unsigned.
fromSigned_Unsigned(num) == BN(num)

\* utils.fromSigned and utils.toUnsigned
fromSigned(num) == fromTwos(BN(num), WordBits)
toUnsigned(num) == toArray(toTwos(num, WordBits), 0)

\* BN.mod on numbers that are not negative
BNmod(a, b) == a % b

RECURSIVE iand(_, _), ior(_, _), ixor(_, _)
iand(a, b) ==
    IF a = 0 \/ b = 0 THEN 0
    ELSE 2 * iand(a \div 2, b \div 2) + (IF a % 2 = 1 /\ b % 2 = 1 THEN 1 ELSE 0)
ior(a, b) ==
    IF a = 0 THEN b ELSE IF b = 0 THEN a
    ELSE 2 * ior(a \div 2, b \div 2) + (IF a % 2 = 1 \/ b % 2 = 1 THEN 1 ELSE 0)
ixor(a, b) ==
    IF a = 0 THEN b ELSE IF b = 0 THEN a
    ELSE 2 * ixor(a \div 2, b \div 2) + (IF a % 2 # b % 2 THEN 1 ELSE 0)

ADD(a, b, rs) ==
    [rs |-> rs, ret |-> <<toArray((BN(a) + BN(b)) % TWO_POW256, ArithBytes)>>]

MUL(a, b, rs) ==
    [rs |-> rs, ret |-> <<toArray((BN(a) * BN(b)) % TWO_POW256, ArithBytes)>>]

SUB(a, b, rs) ==
    [rs |-> rs, ret |-> <<toUnsigned(BN(a) - BN(b))>>]

DIV(a, b, rs) ==
    [rs |-> rs,
     ret |-> <<IF BN(b) = 0 THEN <<0>> ELSE toArray(BNdiv(BN(a), BN(b)), ArithBytes)>>]

SDIV(a, b, rs) ==
    [rs |-> rs,
     ret |-> <<IF fromSigned(b) = 0 THEN <<0>>
               ELSE toUnsigned(BNdiv(fromSigned(a), fromSigned(b)))>>]

MOD(a, b, rs) ==
    [rs |-> rs,
     ret |-> <<IF BN(b) = 0 THEN <<0>> ELSE toArray(BNmod(BN(a), BN(b)), ArithBytes)>>]

SMOD(a, b, rs) ==
    [rs |-> rs,
     ret |-> <<IF fromSigned(b) = 0 THEN <<0>>
               ELSE Let(BNmod(BNabs(fromSigned(a)), BNabs(fromSigned(b))), LAMBDA r :
                        toUnsigned(IF fromSigned(a) < 0 THEN 0 - r ELSE r))>>]

\* ADDMOD that reduces the sum to a word before the modulus is taken.
ADDMOD_Truncates(a, b, c, rs) ==
    [rs |-> rs,
     ret |-> <<IF BN(c) = 0 THEN <<0>>
               ELSE toArray(BNmod((BN(a) + BN(b)) % TWO_POW256, BN(c)), ArithBytes)>>]

ADDMOD(a, b, c, rs) ==
    [rs |-> rs,
     ret |-> <<IF BN(c) = 0 THEN <<0>>
               ELSE toArray(BNmod(BN(a) + BN(b), BN(c)), ArithBytes)>>]

MULMOD(a, b, c, rs) ==
    [rs |-> rs,
     ret |-> <<IF BN(c) = 0 THEN <<0>>
               ELSE toArray(BNmod(BN(a) * BN(b), BN(c)), ArithBytes)>>]

AND(a, b, rs) == [rs |-> rs, ret |-> <<toArray(iand(BN(a), BN(b)), ArithBytes)>>]

OR(a, b, rs) == [rs |-> rs, ret |-> <<toArray(ior(BN(a), BN(b)), ArithBytes)>>]

XOR(a, b, rs) == [rs |-> rs, ret |-> <<toArray(ixor(BN(a), BN(b)), ArithBytes)>>]

MaxArithSteps == 1

\* The operands: 0, small numbers, the largest and the smallest signed word,
\* -1 and -7; 7 is a word shorter than ArithBytes.
ArithValues ==
    {0, 1, 2, TWO_POW256 \div 2 - 1, TWO_POW256 \div 2, TWO_POW256 - 7, TWO_POW256 - 1}
ArithWords == {toArray(n, ArithBytes) : n \in ArithValues} \cup {<<7>>}

\* The loop pops the operands of an opcode off the stack, the top first.
Operand(i) == runState.stack[Len(runState.stack) - i + 1]
Popped(n) == [runState EXCEPT !.stack = SubSeq(@, 1, Len(@) - n)]

CanArith(n) ==
    /\ Running(runState) /\ Idle /\ acc.steps < MaxArithSteps
    /\ Len(runState.stack) >= n

\* The product of two operands is within the integers of the checker.
MulSafe(a, b) == IF BN(a) = 0 THEN TRUE ELSE BN(b) <= Huge \div BN(a)

ArithCommit(op, args, r) ==
    /\ runState' = LoopSync(r)
    /\ h' = SetField([StartH(runState, op) EXCEPT !.before = runState], "args", args)
    /\ acc' = [acc EXCEPT !.steps = @ + 1]
    /\ UNCHANGED <<accounts, selfdestruct, callStack, pending, credits>>

Step_ADD ==
    /\ CanArith(2)
    /\ ArithCommit("ADD", <<Operand(1), Operand(2)>>, ADD(Operand(1), Operand(2), Popped(2)))

Step_MUL ==
    /\ CanArith(2)
    /\ MulSafe(Operand(1), Operand(2))
    /\ ArithCommit("MUL", <<Operand(1), Operand(2)>>, MUL(Operand(1), Operand(2), Popped(2)))

Step_SUB ==
    /\ CanArith(2)
    /\ ArithCommit("SUB", <<Operand(1), Operand(2)>>, SUB(Operand(1), Operand(2), Popped(2)))

Step_DIV ==
    /\ CanArith(2)
    /\ ArithCommit("DIV", <<Operand(1), Operand(2)>>, DIV(Operand(1), Operand(2), Popped(2)))

Step_SDIV ==
    /\ CanArith(2)
    /\ ArithCommit("SDIV", <<Operand(1), Operand(2)>>, SDIV(Operand(1), Operand(2), Popped(2)))

Step_MOD ==
    /\ CanArith(2)
    /\ ArithCommit("MOD", <<Operand(1), Operand(2)>>, MOD(Operand(1), Operand(2), Popped(2)))

Step_SMOD ==
    /\ CanArith(2)
    /\ ArithCommit("SMOD", <<Operand(1), Operand(2)>>, SMOD(Operand(1), Operand(2), Popped(2)))

Step_ADDMOD ==
    /\ CanArith(3)
    /\ ArithCommit("ADDMOD", <<Operand(1), Operand(2), Operand(3)>>,
                   ADDMOD(Operand(1), Operand(2), Operand(3), Popped(3)))

Step_MULMOD ==
    /\ CanArith(3)
    /\ MulSafe(Operand(1), Operand(2))
    /\ ArithCommit("MULMOD", <<Operand(1), Operand(2), Operand(3)>>,
                   MULMOD(Operand(1), Operand(2), Operand(3), Popped(3)))

Step_AND ==
    /\ CanArith(2)
    /\ ArithCommit("AND", <<Operand(1), Operand(2)>>, AND(Operand(1), Operand(2), Popped(2)))

Step_OR ==
    /\ CanArith(2)
    /\ ArithCommit("OR", <<Operand(1), Operand(2)>>, OR(Operand(1), Operand(2), Popped(2)))

Step_XOR ==
    /\ CanArith(2)
    /\ ArithCommit("XOR", <<Operand(1), Operand(2)>>, XOR(Operand(1), Operand(2), Popped(2)))

\* The frame with three words on its stack.
InitArith ==
    /\ runState \in {[NewFrame("A", "B", 0, 0, 1000, [balance |-> 0, nonce |-> 0])
                         EXCEPT !.stack = <<c, b, a>>] : a, b, c \in ArithWords}
    /\ h = IdleH
    /\ acc = [E |-> 0, steps |-> 0, calls |-> 0]
    /\ accounts = MemAccounts
    /\ selfdestruct = <<NoneDestructed>>
    /\ callStack = <<>>
    /\ pending = <<>>
    /\ credits = [a \in Address |-> 0]

NextArith ==
    \/ Step_ADD
    \/ Step_MUL
    \/ Step_SUB
    \/ Step_DIV
    \/ Step_SDIV
    \/ Step_MOD
    \/ Step_SMOD
    \/ Step_ADDMOD
    \/ Step_MULMOD
    \/ Step_AND
    \/ Step_OR
    \/ Step_XOR

SpecArith == InitArith /\ [][NextArith]_vars

(***************************************************************************)
(* SIGNEXTEND and BYTE, and operands shorter than a word                   *)
(***************************************************************************)
\* A read of a Buffer at a 0-based index: undefined outside the buffer, and
\* undefined & 0x80 is 0.
HighBitAt(val, i) == IF i >= 0 /\ i < Len(val) THEN val[i + 1] >= 128 ELSE FALSE

\* SIGNEXTEND without the clone: the operand buffer itself is written.
SIGNEXTEND_InPlace(k, val, rs) ==
    Let(IF BN(k) <= 31
        THEN [i \in 1..Len(val) |->
                 IF i - 1 <= 30 - BN(k)
                 THEN (IF HighBitAt(val, 31 - BN(k)) THEN 255 ELSE 0)
                 ELSE val[i]]
        ELSE val, LAMBDA out :
        [rs |-> rs, ret |-> <<out>>, operand |-> out])

\* SIGNEXTEND: [rs, ret, operand]; operand is the buffer the caller passed
\* as val, as it is after the handler.  val[i] = ... for an index outside
\* the clone writes nothing.
SIGNEXTEND(k, val, rs) ==
    Let(IF BN(k) <= 31
        THEN [i \in 1..Len(val) |->
                 IF i - 1 <= 30 - BN(k)
                 THEN (IF HighBitAt(val, 31 - BN(k)) THEN 255 ELSE 0)
                 ELSE val[i]]
        ELSE val, LAMBDA out :
        [rs |-> rs, ret |-> <<out>>, operand |-> val])

\* BYTE; utils.intToBuffer of a byte is that byte.
BYTE(pos, word, rs) ==
    [rs |-> rs,
     ret |-> <<IF BN(pos) >= 32 THEN <<0>>
               ELSE <<setLengthLeft(word, 32)[BN(pos) + 1]>>>>]

MaxPadSteps == 2

\* Positions up to, at and behind the last byte of a word, one of them as a
\* full word.
PadPositions == {<<0>>, <<1>>, <<30>>, <<31>>, <<32>>, setLengthLeft(<<1>>, WordBytes)}

\* Full words with and without high bits, and short buffers as MLOAD and
\* the comparisons return them.
PadWords ==
    {[i \in 1..WordBytes |-> i], [i \in 1..WordBytes |-> 255 - i],
     [i \in 1..WordBytes |-> IF i % 2 = 0 THEN 200 ELSE 5],
     <<255>>, <<1, 128>>, <<>>}

CanPadStep == Running(runState) /\ Idle /\ acc.steps < MaxPadSteps

PadCommit(op, args, r, operand) ==
    /\ runState' = LoopSync(r)
    /\ h' = SetField(SetField([StartH(runState, op) EXCEPT !.before = runState],
                              "args", args),
                     "operand", operand)
    /\ acc' = [acc EXCEPT !.steps = @ + 1]
    /\ UNCHANGED <<accounts, selfdestruct, callStack, pending, credits>>

Step_SIGNEXTEND ==
    \E k \in PadPositions, val \in PadWords :
        /\ CanPadStep
        /\ \E r \in {SIGNEXTEND(k, val, runState)} :
               PadCommit("SIGNEXTEND", <<k, val>>, [rs |-> r.rs, ret |-> r.ret], r.operand)

Step_BYTE ==
    \E pos \in PadPositions, word \in PadWords :
        /\ CanPadStep
        /\ PadCommit("BYTE", <<pos, word>>, BYTE(pos, word, runState), word)

Pad_MSTORE ==
    \E word \in PadWords :
        /\ CanPadStep
        /\ PadCommit("MSTORE", <<<<0>>, word>>, MSTORE(0, word, runState), word)

Pad_MSTORE8 ==
    \E byte \in PadWords :
        /\ CanPadStep
        /\ PadCommit("MSTORE8", <<<<0>>, byte>>, MSTORE8(0, byte, runState), byte)

InitPad ==
    /\ runState = NewFrame("A", "B", 0, 0, 1000, [balance |-> 0, nonce |-> 0])
    /\ h = IdleH
    /\ acc = [E |-> 0, steps |-> 0, calls |-> 0]
    /\ accounts = MemAccounts
    /\ selfdestruct = <<NoneDestructed>>
    /\ callStack = <<>>
    /\ pending = <<>>
    /\ credits = [a \in Address |-> 0]

NextPad ==
    \/ Step_SIGNEXTEND
    \/ Step_BYTE
    \/ Pad_MSTORE
    \/ Pad_MSTORE8

SpecPad == InitPad /\ [][NextPad]_vars

(***************************************************************************)
(* CALL in a frame that has logged                                         *)
(***************************************************************************)
LogTopics == {<<>>, <<<<3>>>>}

\* A log before the calls, so that the frame has logs of its own.
Call_LOG ==
    \E topics \in LogTopics :
        /\ CanStep
        /\ acc.steps = 0
        /\ MemCommit("LOG", 0, 1, LOG(0, 1, topics, runState))

InitLogs ==
    /\ runState = NewFrame("A", "B", 1, 0, 100000, [balance |-> 1, nonce |-> 1])
    /\ accounts = [CallAccounts EXCEPT !["A"].balance = 1]
    /\ h = IdleH
    /\ acc = [E |-> 0, steps |-> 0, calls |-> 0]
    /\ selfdestruct = <<NoneDestructed>>
    /\ callStack = <<>>
    /\ pending = <<>>
    /\ credits = [a \in Address |-> 0]

NextLogs ==
    \/ Call_LOG
    \/ Step_CALL
    \/ AccountIsEmptyLate
    \/ RunCallReturns

SpecLogs == InitLogs /\ [][NextLogs]_vars

(***************************************************************************)
(* SSTORE and SELFDESTRUCT in frames short of gas                          *)
(***************************************************************************)
\* Gas below every storage fee, below the new-account charge, and enough.
ShortGas == {4000, 24000, 100000}

InitShort ==
    /\ runState \in {NewFrame("A", "B", 0, 0, g, [balance |-> 1, nonce |-> 1]) : g \in ShortGas}
    /\ h = IdleH
    /\ acc = [E |-> 0, steps |-> 0, calls |-> 0, ran |-> NoCredits]
    /\ accounts \in {[a \in Address |->
                         SetField([CallAccounts EXCEPT !["A"].balance = 1][a], "storage",
                                  IF a = "A" THEN s ELSE <<>>)] :
                        s \in StorageAtStart}
    /\ selfdestruct = <<NoneDestructed>>
    /\ callStack = <<>>
    /\ pending = <<>>
    /\ credits = NoCredits

NextShort ==
    \/ Step_SSTORE
    \/ Step_SELFDESTRUCT

SpecShort == InitShort /\ [][NextShort]_vars

(***************************************************************************)
(* Claims about memory pricing, checked under SpecMem                      *)
(***************************************************************************)
\* The last step ended and the frame has not failed.
StepEndedWell == Idle /\ h.op # "none" /\ runState.exceptionError = NoError

\* The memory-expansion gas the last step paid, and the rest of what it paid.
ExpansionPaid == runState.memGasPaid - h.memPaidAtStart
OtherPaid == (h.gasAtStart - runState.gasLeft) - ExpansionPaid

\* C7: within a frame, over any sequence of memory-touching handlers,
\* memoryWordCount never decreases and highestMemCost never decreases.
C7_MemoryMonotone ==
    [][ /\ runState'.memoryWordCount >= runState.memoryWordCount
        /\ runState'.highestMemCost >= runState.highestMemCost ]_vars

\* An access at offset 0 after one that reached into the third word: the
\* word count stayed where the first access put it.
C7_Witness ==
    /\ StepEndedWell
    /\ acc.steps = 2
    /\ h.op = "MLOAD" /\ h.offset = 0
    /\ runState.memoryWordCount = 2

\* C8 as claimed: after non-trapping accesses memoryWordCount is ceil(E/32)
\* for the largest offset+length E accessed, highestMemCost is
\* 3*w + floor(w*w/512), the expansion gas charged in total is highestMemCost,
\* and an access inside the paid range is charged 0.
C8_Claimed ==
    StepEndedWell =>
        /\ runState.memoryWordCount = CeilWords(acc.E)
        /\ runState.highestMemCost = MemCost(runState.memoryWordCount)
        /\ runState.memGasPaid = runState.highestMemCost
        /\ (h.inside => ExpansionPaid = 0)

\* C9 as claimed: SHA3 charges sha3WordGas * ceil(length/32), and the copy
\* handlers copyGas * ceil(length/32), besides memory expansion.
C9_Claimed ==
    /\ (StepEndedWell /\ h.op = "SHA3")
           => OtherPaid = sha3WordGas * CeilWords(h.length)
    /\ (StepEndedWell /\ h.op \in {"CALLDATACOPY", "CODECOPY", "EXTCODECOPY"})
           => OtherPaid = copyGas * CeilWords(h.length)

(***************************************************************************)
(* Claims about the call/create protocol, checked under Spec               *)
(***************************************************************************)
CallOps == {"CALL", "CALLCODE", "DELEGATECALL", "CREATE"}

\* The nested call of this step has returned, and how.
Returned == h.op \in CallOps /\ h.call.invoked /\ h.phase = "idle"
ReturnedWell == Returned /\ ~HasField(h.results.vm, "exceptionError")

\* C1 as claimed: once a call handler has completed without a trap, the
\* nested call having returned with gasUsed within the limit it was given,
\* gasLeft is >= 0, whenever the backend delivered its callbacks.
C1_Claimed ==
    ( /\ h.op \in CallOps /\ Idle
      /\ h.doneErr = NoError
      /\ runState.exceptionError = NoError
      /\ (h.call.invoked => h.results.gasUsed <= h.call.callOptions.gasLimit) )
    => runState.gasLeft >= 0

\* C2 as claimed: CALL forwards min(requested, g - floor(g/64)) where g is
\* gasLeft after the memory, value-transfer and (when it applies) new-account
\* charges, whenever the callbacks are delivered; the other three handlers
\* forward at most g - floor(g/64).
C2_Claimed ==
    (h.op \in CallOps /\ h.call.reached /\ h.doneErr = NoError) =>
        LET owed == IF h.applicable /\ ~h.call.paidBefore THEN callNewAccountGas ELSE 0
            g == h.call.gBefore - owed
        IN  IF h.op = "CALL"
            THEN h.call.forwarded = Min(h.requested, g - (g \div GasDivisor))
            ELSE h.call.forwarded <= g - (g \div GasDivisor)

\* The frame the step started in refuses calls: it is at the depth limit, or
\* (but for DELEGATECALL) its contract's balance is below the call value.
C3_MustRefuse ==
    /\ h.op \in CallOps
    /\ \/ h.before.depth >= stackLimit
       \/ h.op # "DELEGATECALL" /\ h.before.contract.balance < h.value

\* C3: a call handler running in a frame at depth >= 1024, or (but for
\* DELEGATECALL) with a balance below the call value, never invokes runCall
\* and leaves the contract's nonce alone; having reached makeCall it has
\* pushed exactly one 0, and it has pushed nothing if it ended before.
C3_RefusedCallPushesZero ==
    C3_MustRefuse =>
        /\ ~h.call.invoked
        /\ h.phase = "idle"
        /\ runState.contract.nonce = h.before.contract.nonce
        /\ accounts[runState.address].nonce = h.before.contract.nonce
        /\ runState.stack = IF h.call.reached THEN Append(h.before.stack, <<0>>)
                            ELSE h.before.stack

\* A CREATE at depth 1024 and a CALL of a value the balance does not cover
\* are the two ways in; the witness is the first.
C3_Witness ==
    /\ h.op = "CREATE"
    /\ h.before.depth >= stackLimit
    /\ h.call.reached
    /\ runState.stack = <<<<0>>>>

\* C5: when the nested call returns with an exception the frame's gasRefund
\* stays as it was, and when it returns normally gasRefund grows by exactly
\* the refund the results carry.
C5_RefundFromChild ==
    [][ (h.phase = "runCall" /\ h'.phase = "idle") =>
            runState'.gasRefund =
                runState.gasRefund +
                (IF HasField(h'.results.vm, "exceptionError") THEN 0
                 ELSE h'.results.vm.gasRefund) ]_vars

C5_Witness ==
    /\ ReturnedWell
    /\ h.results.vm.gasRefund = ChildRefund
    /\ runState.gasRefund = h.before.gasRefund + ChildRefund

\* The byte of a frame's memory at a 0-based index; unwritten bytes are 0.
ByteAt(memory, i) == IF i < Len(memory) THEN memory[i + 1] ELSE 0

\* C6: when the nested call of a CALL returns normally, the first
\* min(outLength, length of the return data) bytes of the return data are in
\* memory from outOffset on, no other byte of memory has changed and 1 is
\* pushed; when it returns with an exception 0 is pushed, memory is as it
\* was and the frame has not failed.
C6_CallReturn ==
    [][ (h.op = "CALL" /\ h.phase = "runCall" /\ h'.phase = "idle") =>
            LET res == h'.results
                off == h.localOpts.outOffset
                n == Min(h.localOpts.outLength, Len(res.vm.return))
                top == Max(Len(runState.memory), Len(runState'.memory))
            IN  IF ~HasField(res.vm, "exceptionError")
                THEN /\ \A i \in 0..(top - 1) :
                            ByteAt(runState'.memory, i) =
                                IF i >= off /\ i < off + n THEN res.vm.return[i - off + 1]
                                ELSE ByteAt(runState.memory, i)
                     /\ Len(runState'.memory) >= off + n
                     /\ runState'.stack = Append(runState.stack, <<1>>)
                ELSE /\ runState'.memory = runState.memory
                     /\ runState'.stack = Append(runState.stack, <<0>>)
                     /\ runState'.exceptionError = runState.exceptionError
                     /\ h'.doneErr = h.doneErr ]_vars

\* Return data longer than the output region, written over bytes a store
\* had left in memory.
C6_Witness ==
    /\ h.op = "CALL" /\ ReturnedWell
    /\ h.localOpts.outOffset = 33 /\ h.localOpts.outLength > Len(h.results.vm.return)
    /\ h.before.memory # <<>>
    /\ ByteAt(runState.memory, 33) = 5 /\ ByteAt(runState.memory, 64) = 7

\* C10 as claimed: when CALL runs out of gas on the callNewAccountGas charge
\* no stipend is added, runCall is not invoked and nothing is pushed.
C10_Claimed ==
    (h.op = "CALL" /\ h.call.oog) =>
        /\ ~h.call.stipendAdded
        /\ ~h.call.invoked
        /\ runState.stack = h.before.stack

(***************************************************************************)
(* Claims about the selfdestruct refund, checked under SpecSD              *)
(***************************************************************************)
RECURSIVE SumOver(_, _)
SumOver(f, S) ==
    IF S = {} THEN 0
    ELSE LET a == CHOOSE x \in S : TRUE IN f[a] + SumOver(f, S \ {a})

\* How often suicideRefundGas for address a is in the gasRefund of the
\* frames of the tree, the suspended ones included.
CreditedIn(a) ==
    credits[a] + SumOver([i \in DOMAIN callStack |-> callStack[i].credits[a]],
                         DOMAIN callStack)

\* C4: within one top-level execution suicideRefundGas is in the refund at
\* most once per contract address, in whichever frames of the tree
\* SELFDESTRUCT ran for that address; every frame's gasRefund is
\* suicideRefundGas times the credits it holds.
C4_RefundOncePerAddress ==
    /\ \A a \in Address : CreditedIn(a) <= 1
    /\ runState.gasRefund = suicideRefundGas * SumOver(credits, Address)
    /\ \A i \in DOMAIN callStack :
          callStack[i].rs.gasRefund = suicideRefundGas * SumOver(callStack[i].credits, Address)

\* SELFDESTRUCT ran for address A in a nested frame and again in the top
\* frame, and the refund holds suicideRefundGas once.
C4_Witness ==
    /\ callStack = <<>>
    /\ acc.ran["A"] >= 2
    /\ runState.stopped
    /\ runState.gasRefund = suicideRefundGas

(***************************************************************************)
(* Claims about jumps, checked under SpecJump                              *)
(***************************************************************************)
\* The last step was a jump that was to be taken: a JUMP, or a JUMPI with a
\* nonzero condition.
JumpTaken == h.op = "JUMP" \/ (h.op = "JUMPI" /\ h.args[2] # 0)

\* C11: a JUMP, or a JUMPI with a nonzero condition, raises INVALID_JUMP if
\* and only if its destination is not in validJumps, which holds no
\* position at or behind the end of the code; otherwise programCounter is
\* the destination; a JUMPI with a zero condition leaves programCounter
\* unchanged and raises nothing.
C11_JumpValidity ==
    (h.op \in {"JUMP", "JUMPI"}) =>
        /\ \A d \in h.before.validJumps : d < Len(h.before.code)
        /\ IF JumpTaken
           THEN IF h.args[1] \in h.before.validJumps
                THEN /\ runState.exceptionError = NoError
                     /\ runState.programCounter = h.args[1]
                ELSE /\ runState.exceptionError = INVALID_JUMP
                     /\ runState.programCounter = h.before.programCounter
           ELSE /\ runState.exceptionError = NoError
                /\ runState.programCounter = h.before.programCounter

\* A jump to a 0x5B inside the immediate of a PUSH is refused, after a jump
\* to a JUMPDEST was taken.
C11_Witness ==
    /\ h.op = "JUMPI" /\ h.args = <<4, 1>>
    /\ h.before.programCounter = 2
    /\ runState.exceptionError = INVALID_JUMP

(***************************************************************************)
(* Claims about storage, checked under SpecStorage                         *)
(***************************************************************************)
RECURSIVE Num(_)
\* The number a big-endian byte string stands for.
Num(s) == IF s = <<>> THEN 0 ELSE Num(SubSeq(s, 1, Len(s) - 1)) * 256 + s[Len(s)]

\* The value stored under the key of the last step before it, and now.
StoredBefore ==
    Let(setLengthLeft(h.args[1], WordBytes), LAMBDA k :
        IF k \in DOMAIN h.storageBefore THEN h.storageBefore[k] ELSE <<>>)
StoredNow == getContractStorage(accounts, runState.address, setLengthLeft(h.args[1], WordBytes))

\* C12: an SSTORE that completes charges exactly one fee, sstoreSet when the
\* previous value is 0 and the new one is not, sstoreReset in the three
\* other cases, and credits sstoreRefund to gasRefund exactly when the
\* previous value is not 0 and the new one is; an SSTORE that runs out of
\* gas credits nothing.
C12_SstoreFees ==
    (Idle /\ h.op = "SSTORE") =>
        /\ StepEndedWell =>
              /\ h.gasAtStart - runState.gasLeft =
                     IF Num(StoredBefore) = 0 /\ Num(h.args[2]) # 0
                     THEN sstoreSetGas ELSE sstoreResetGas
              /\ runState.gasRefund - h.before.gasRefund =
                     IF Num(StoredBefore) # 0 /\ Num(h.args[2]) = 0
                     THEN sstoreRefundGas ELSE 0
        /\ runState.exceptionError = OUT_OF_GAS =>
              runState.gasRefund = h.before.gasRefund

\* A stored value was cleared by a zero word of two bytes: the reset fee was
\* charged and the refund credited.
C12_Witness ==
    /\ StepEndedWell /\ h.op = "SSTORE"
    /\ Num(StoredBefore) # 0 /\ h.args[2] = <<0, 0>>
    /\ runState.gasRefund = h.before.gasRefund + sstoreRefundGas

\* C13: after an SSTORE(k, v) that completes, the backend holds under k a
\* value numerically equal to v, and no value when v is 0; an SLOAD of the
\* same key that follows returns a value numerically equal to v, and an
\* SLOAD of an absent key returns 0.
C13_StoreThenLoad ==
    /\ (StepEndedWell /\ h.op = "SSTORE") =>
          /\ Num(StoredNow) = Num(h.args[2])
          /\ Num(h.args[2]) = 0 =>
                setLengthLeft(h.args[1], WordBytes) \notin DOMAIN accounts[runState.address].storage
    /\ (StepEndedWell /\ h.op = "SLOAD") =>
          /\ Len(runState.stack) = Len(h.before.stack) + 1
          /\ (h.prev.op = "SSTORE" /\ h.prev.well
              /\ setLengthLeft(h.prev.args[1], WordBytes) = setLengthLeft(h.args[1], WordBytes))
                => Num(runState.stack[Len(runState.stack)]) = Num(h.prev.args[2])
          /\ setLengthLeft(h.args[1], WordBytes) \notin DOMAIN accounts[runState.address].storage
                => Num(runState.stack[Len(runState.stack)]) = 0

\* A value was stored under the key 1 and loaded under the key 0x0001.
C13_Witness ==
    /\ StepEndedWell /\ h.op = "SLOAD" /\ h.args = <<<<0, 1>>>>
    /\ h.prev.op = "SSTORE" /\ h.prev.well /\ h.prev.args = <<<<1>>, <<0, 5>>>>
    /\ runState.stack = <<<<5>>>>

(***************************************************************************)
(* Claims about words in memory, checked under SpecWord                    *)
(***************************************************************************)
RECURSIVE Strip(_)
\* A byte string without its leading zero bytes: two byte strings stand for
\* the same number exactly when they are equal after Strip.
Strip(s) == IF s # <<>> /\ s[1] = 0 THEN Strip(SubSeq(s, 2, Len(s))) ELSE s

\* The last index either memory holds, before or after the last step.
MemoryEnd == Max(Len(runState.memory), Len(h.before.memory))

\* C14: an MSTORE(off, x) that completes changes no byte of memory outside
\* [off, off + 32), and an MLOAD(off) that follows it returns a value
\* numerically equal to x.
C14_WordRoundTrip ==
    /\ (StepEndedWell /\ h.op = "MSTORE") =>
          \A i \in 0..MemoryEnd :
              (i < h.args[1] \/ i >= h.args[1] + WordBytes)
                  => ByteAt(runState.memory, i) = ByteAt(h.before.memory, i)
    /\ (StepEndedWell /\ h.op = "MLOAD" /\ h.prev.op = "MSTORE" /\ h.prev.well
        /\ h.prev.args[1] = h.args[1])
          => Strip(runState.stack[Len(runState.stack)]) = Strip(h.prev.args[2])

\* A short word was stored at an unaligned offset into memory that holds a
\* full word, and then loaded.
C14_Witness ==
    /\ StepEndedWell /\ h.op = "MLOAD" /\ h.args = <<1>>
    /\ h.prev.op = "MSTORE" /\ h.prev.well /\ h.prev.args = <<1, <<0, 3>>>>
    /\ runState.memory[1] = 1
    /\ runState.stack[Len(runState.stack)] = <<3>>

(***************************************************************************)
(* Claims about SELFDESTRUCT's balances, checked under SpecSD              *)
(***************************************************************************)
\* The last step was a SELFDESTRUCT that completed without error.
Destructed == h.op = "SELFDESTRUCT" /\ runState.exceptionError = NoError

\* The balances of all accounts together.
TotalBalance(accts) == SumOver([a \in Address |-> accts[a].balance], Address)

\* C15: after a SELFDESTRUCT(to) that completes without error from a
\* contract with balance B, the contract's balance is 0, the beneficiary's
\* balance has grown by exactly B when it is a different account, so that
\* the sum of the balances is preserved, the selfdestruct set maps the
\* contract to the beneficiary, and stopped is set.
C15_DestructMovesBalance ==
    Destructed =>
        /\ accounts[runState.address].balance = 0
        /\ h.toAddress # runState.address =>
              /\ accounts[h.toAddress].balance =
                     h.checkpoint[h.toAddress].balance + h.checkpoint[runState.address].balance
              /\ TotalBalance(accounts) = TotalBalance(h.checkpoint)
        /\ selfdestruct[runState.selfdestruct][runState.address] = h.toAddress
        /\ runState.stopped

\* A called contract that holds 5 destroyed itself in favour of an account
\* that did not exist.
C15_Witness ==
    /\ Destructed /\ callStack # <<>>
    /\ runState.address = "B" /\ h.toAddress = "C"
    /\ h.checkpoint["B"].balance = 5 /\ ~h.checkpoint["C"].exists
    /\ accounts["C"].balance = 5

(***************************************************************************)
(* Claims about the callee's context, checked under Spec                   *)
(***************************************************************************)
\* C16: DELEGATECALL invokes the callee with to = the frame's address,
\* caller = the frame's caller and value = the frame's callValue, and is not
\* subject to the balance check: once it reaches makeCall it is refused only
\* for the depth.  CALLCODE invokes the callee with to = the frame's address
\* and caller = the frame's address.
C16_CalleeContext ==
    /\ (h.op = "DELEGATECALL" /\ h.call.reached) =>
          /\ h.call.invoked = (h.before.depth < stackLimit)
          /\ h.call.invoked =>
                /\ h.call.callOptions.to = h.before.address
                /\ h.call.callOptions.caller = h.before.caller
                /\ h.call.callOptions.value = h.before.callValue
    /\ (h.op = "CALLCODE" /\ h.call.invoked) =>
          /\ h.call.callOptions.to = h.before.address
          /\ h.call.callOptions.caller = h.before.address

\* A frame whose balance is below its callValue made a DELEGATECALL, and the
\* callee was invoked.
C16_Witness ==
    /\ h.op = "DELEGATECALL" /\ h.call.invoked
    /\ h.before.contract.balance < h.before.callValue
    /\ h.call.callOptions.caller = "B" /\ h.call.callOptions.to = "A"

(***************************************************************************)
(* Claims about the call stipend, checked under Spec                       *)
(***************************************************************************)
\* The stipend a CALL or CALLCODE with this step's value carries.
StipendDue == IF h.value # 0 THEN callStipend ELSE 0

\* C17 as claimed: for a CALL or CALLCODE that completes without error the
\* callee's gas limit is the forwarded amount plus callStipend when the
\* value is above 0, and after the call the caller's gasLeft is
\* g + callStipend - gasUsed, where g is gasLeft just before forwarding;
\* with value 0 no stipend is on either side.
C17_Claimed ==
    ( /\ h.op \in {"CALL", "CALLCODE"} /\ Returned
      /\ h.doneErr = NoError /\ runState.exceptionError = NoError ) =>
        /\ h.call.callOptions.gasLimit = h.call.forwarded + StipendDue
        /\ runState.gasLeft = h.call.gBefore + StipendDue - h.results.gasUsed

(***************************************************************************)
(* Claims about arithmetic, checked under SpecArith                        *)
(***************************************************************************)
\* The operands of the last step and its result, as numbers.
ArgA == Num(h.args[1])
ArgB == Num(h.args[2])
ArgC == Num(h.args[3])
Result == runState.stack[Len(runState.stack)]

\* C18: DIV(a, 0), MOD(a, 0), ADDMOD(a, b, 0) and MULMOD(a, b, 0) are 0;
\* for a nonzero divisor or modulus the results are floor(a / b), a mod b,
\* (a + b) mod c and (a * b) mod c, the sum and the product not being
\* reduced to a word first.
C18_DivMod ==
    /\ h.op = "DIV" => Num(Result) = IF ArgB = 0 THEN 0 ELSE ArgA \div ArgB
    /\ h.op = "MOD" => Num(Result) = IF ArgB = 0 THEN 0 ELSE ArgA % ArgB
    /\ h.op = "ADDMOD" => Num(Result) = IF ArgC = 0 THEN 0 ELSE (ArgA + ArgB) % ArgC
    /\ h.op = "MULMOD" => Num(Result) = IF ArgC = 0 THEN 0 ELSE (ArgA * ArgB) % ArgC

\* An ADDMOD whose sum does not fit a word, with a result that the reduced
\* sum would not give.
C18_Witness ==
    /\ h.op = "ADDMOD" /\ ArgC # 0
    /\ ArgA + ArgB >= TWO_POW256
    /\ Num(Result) = (ArgA + ArgB) % ArgC
    /\ Num(Result) # ((ArgA + ArgB) % TWO_POW256) % ArgC

\* Bit i of a number.
Bit(n, i) == (n \div (2 ^ i)) % 2

\* C19 as claimed: each of ADD, MUL, SUB, AND, OR and XOR returns a value
\* that is exactly one word long and, read as an unsigned big-endian
\* integer, equals (a op b) mod 2^256.
C19_Claimed ==
    (h.op \in {"ADD", "MUL", "SUB", "AND", "OR", "XOR"}) =>
        /\ Len(Result) = ArithBytes
        /\ h.op = "ADD" => Num(Result) = (ArgA + ArgB) % TWO_POW256
        /\ h.op = "MUL" => Num(Result) = (ArgA * ArgB) % TWO_POW256
        /\ h.op = "SUB" => Num(Result) = (ArgA - ArgB + TWO_POW256) % TWO_POW256
        /\ h.op = "AND" => \A i \in 0..(WordBits - 1) :
               Bit(Num(Result), i) = IF Bit(ArgA, i) = 1 /\ Bit(ArgB, i) = 1 THEN 1 ELSE 0
        /\ h.op = "OR" => \A i \in 0..(WordBits - 1) :
               Bit(Num(Result), i) = IF Bit(ArgA, i) = 1 \/ Bit(ArgB, i) = 1 THEN 1 ELSE 0
        /\ h.op = "XOR" => \A i \in 0..(WordBits - 1) :
               Bit(Num(Result), i) = IF Bit(ArgA, i) # Bit(ArgB, i) THEN 1 ELSE 0

\* A word read in two's complement, and a signed number as a word.
Signed(n) == IF n >= TWO_POW256 \div 2 THEN n - TWO_POW256 ELSE n
AsWord(n) == (n + TWO_POW256) % TWO_POW256
Magnitude(n) == IF n < 0 THEN 0 - n ELSE n
MinSigned == TWO_POW256 \div 2

\* The quotient of two signed numbers truncated toward zero.
Truncated(a, b) ==
    IF (a < 0) = (b < 0) THEN Magnitude(a) \div Magnitude(b)
    ELSE 0 - (Magnitude(a) \div Magnitude(b))

\* C20: in two's complement SDIV(a, b) is the quotient truncated toward
\* zero, with SDIV(MIN, -1) = MIN and SDIV(a, 0) = 0; SMOD(a, b) has the
\* magnitude |a| mod |b| and the sign of the dividend a, or is zero, with
\* SMOD(a, 0) = 0.
C20_SignedDivMod ==
    /\ h.op = "SDIV" =>
          /\ Num(Result) = IF ArgB = 0 THEN 0
                           ELSE AsWord(Truncated(Signed(ArgA), Signed(ArgB)))
          /\ (ArgA = MinSigned /\ ArgB = TWO_POW256 - 1) => Num(Result) = MinSigned
    /\ h.op = "SMOD" =>
          IF ArgB = 0 THEN Num(Result) = 0
          ELSE /\ Magnitude(Signed(Num(Result))) =
                      Magnitude(Signed(ArgA)) % Magnitude(Signed(ArgB))
               /\ \/ Num(Result) = 0
                  \/ (Signed(Num(Result)) < 0) = (Signed(ArgA) < 0)

\* A negative dividend and a positive divisor that does not divide it: the
\* remainder is negative.
C20_Witness ==
    /\ h.op = "SMOD"
    /\ Signed(ArgA) = 0 - 7 /\ Signed(ArgB) = 2
    /\ Signed(Num(Result)) = 0 - 1

(***************************************************************************)
(* Claims about SIGNEXTEND and short operands, checked under SpecPad       *)
(***************************************************************************)
\* The result the last step pushed.
Pushed == runState.stack[Len(runState.stack)]

\* C21: for k in [0, 30] and a 32-byte x, SIGNEXTEND(k, x) keeps the bytes
\* 31-k..31 of x and sets every more significant byte to 0xFF if bit 7 of
\* the byte at 31-k is set and to 0x00 otherwise; for k >= 31 it returns x
\* unchanged; the operand buffer itself is never modified.
C21_SignExtend ==
    (h.op = "SIGNEXTEND") =>
        /\ h.operand = h.args[2]
        /\ Len(h.args[2]) = WordBytes =>
              IF Num(h.args[1]) >= 31 THEN Pushed = h.args[2]
              ELSE /\ Len(Pushed) = WordBytes
                   /\ \A i \in 0..(WordBytes - 1) :
                          ByteAt(Pushed, i) =
                              IF i >= 31 - Num(h.args[1]) THEN ByteAt(h.args[2], i)
                              ELSE IF ByteAt(h.args[2], 31 - Num(h.args[1])) >= 128
                              THEN 255 ELSE 0

\* A word whose byte 30 has bit 7 set was extended from k = 1: the bytes
\* above are 0xFF, the two below are kept.
C21_Witness ==
    /\ h.op = "SIGNEXTEND" /\ h.args[1] = <<1>> /\ Len(h.args[2]) = WordBytes
    /\ ByteAt(h.args[2], 30) >= 128 /\ ByteAt(h.args[2], 0) # 255
    /\ ByteAt(Pushed, 0) = 255 /\ ByteAt(Pushed, 29) = 255
    /\ ByteAt(Pushed, 30) = ByteAt(h.args[2], 30)

(***************************************************************************)
(* Claims about halting, checked under SpecMem                             *)
(***************************************************************************)
\* C22 as claimed: a STOP or RETURN that completes sets the frame's stopped
\* flag, so that the frame is no longer Running, and RETURN sets returnValue
\* to memory[offset..offset+length], zero-padded to exactly length bytes.
C22_Claimed ==
    (StepEndedWell /\ h.op \in {"STOP", "RETURN"}) =>
        /\ runState.stopped
        /\ ~Running(runState)
        /\ h.op = "RETURN" =>
              runState.returnValue =
                  <<[i \in 1..h.length |-> ByteAt(runState.memory, h.offset + i - 1)]>>

(***************************************************************************)
(* Claims about the gas counter, checked under Spec                        *)
(***************************************************************************)
\* C23: the frame's gas counter never increases across a step: gasLeft when
\* a handler has completed is at most gasLeft when it started, also for a
\* CALL or CALLCODE with a value above 0, whether the nested call was made
\* or skipped for depth or balance.
C23_GasNeverIncreases ==
    (Idle /\ h.op # "none") => runState.gasLeft <= h.gasAtStart

\* A CALL with a value was skipped for the balance after the stipend had
\* been added: the value-transfer charge outweighs the stipend.
C23_Witness ==
    /\ Idle /\ h.op = "CALL" /\ h.value # 0
    /\ h.call.reached /\ ~h.call.invoked /\ h.call.stipendAdded
    /\ h.before.contract.balance < h.value
    /\ runState.gasLeft = h.gasAtStart - callValueTransferGas + callStipend
                              - (runState.memGasPaid - h.memPaidAtStart)

\* An operand left-padded to a word.
Padded(s) == setLengthLeft(s, WordBytes)

\* The bytes of memory a store at offset 0 can reach.
StoreReach == 0..(2 * WordBytes - 1)

\* C24 as claimed: a handler gives the same result for an operand shorter
\* than 32 bytes as for the same value left-padded to 32 bytes: SIGNEXTEND
\* and BYTE push the same number, MSTORE and MSTORE8 leave the same memory.
C24_Claimed ==
    /\ h.op = "SIGNEXTEND" =>
          Strip(Pushed) =
              Strip(SIGNEXTEND(Padded(h.args[1]), Padded(h.args[2]), h.before).ret[1])
    /\ h.op = "BYTE" =>
          Strip(Pushed) = Strip(BYTE(Padded(h.args[1]), Padded(h.args[2]), h.before).ret[1])
    /\ (h.op = "MSTORE" /\ StepEndedWell) =>
          \A i \in StoreReach :
              ByteAt(runState.memory, i) =
                  ByteAt(MSTORE(0, Padded(h.args[2]), h.before).rs.memory, i)
    /\ (h.op = "MSTORE8" /\ StepEndedWell) =>
          \A i \in StoreReach :
              ByteAt(runState.memory, i) =
                  ByteAt(MSTORE8(0, Padded(h.args[2]), h.before).rs.memory, i)

\* C25: when the nested call returns with an exception the frame's logs stay
\* as they were, and when it returns normally the logs of the callee are
\* appended, in their order, after the frame's own.
C25_LogsFromChild ==
    [][ (h.phase = "runCall" /\ h'.phase = "idle") =>
            runState'.logs =
                runState.logs \o
                (IF HasField(h'.results.vm, "exceptionError") THEN <<>>
                 ELSE ChildLogs) ]_vars

C25_Witness ==
    /\ ReturnedWell
    /\ h.op = "CALL"
    /\ h.before.logs # <<>>
    /\ runState.logs = h.before.logs \o ChildLogs
    /\ runState.logs # ChildLogs \o h.before.logs

\* No accountIsEmpty callback of the last step is outstanding.
Delivered == \A i \in DOMAIN pending : pending[i].step # acc.steps

\* C26 as claimed: a call handler invokes its completion callback once per
\* execution on every path, a backend error and an out-of-gas raised inside
\* a backend callback included: never twice, and once when the handler, the
\* nested call and the callbacks of the step are through.
C26_Claimed ==
    h.op \in CallOps =>
        /\ h.doneCalls <= 1
        /\ (Idle /\ Delivered) => h.doneCalls = 1

\* C27 as claimed: a step whose memory access has length 0 charges no
\* memory-expansion gas and leaves memoryWordCount and highestMemCost as
\* they were, whatever its offset.
C27_Claimed ==
    [][ (acc'.steps = acc.steps + 1 /\ h'.length = 0) =>
            /\ runState'.memGasPaid = runState.memGasPaid
            /\ runState'.memoryWordCount = runState.memoryWordCount
            /\ runState'.highestMemCost = runState.highestMemCost ]_vars

\* The step just taken was this handler's, and it ran out of gas.
RanOut(op) ==
    /\ acc'.steps = acc.steps + 1
    /\ h'.op = op
    /\ runState'.exceptionError = OUT_OF_GAS

\* C28: an SSTORE that runs out of gas writes no slot and leaves gasRefund
\* as it was; a SELFDESTRUCT that runs out of gas on the new-account charge
\* changes no balance, adds no entry to the selfdestruct set, leaves
\* gasRefund as it was and does not stop the frame.
C28_OutOfGasLeavesState ==
    [][ /\ RanOut("SSTORE") =>
              /\ accounts' = accounts
              /\ runState'.gasRefund = runState.gasRefund
        /\ RanOut("SELFDESTRUCT") =>
              /\ accounts' = accounts
              /\ selfdestruct' = selfdestruct
              /\ runState'.gasRefund = runState.gasRefund
              /\ ~runState'.stopped ]_vars

\* A SELFDESTRUCT to an account that does not exist ran out of gas on the
\* new-account charge, after an SSTORE had cleared a slot.
C28_Witness ==
    /\ h.op = "SELFDESTRUCT" /\ h.toAddress = "C"
    /\ runState.exceptionError = OUT_OF_GAS
    /\ runState.gasLeft = h.gasAtStart - callNewAccountGas
    /\ runState.gasRefund = sstoreRefundGas
    /\ accounts["A"].balance = 1
    /\ selfdestruct[1]["A"] = NoAddress

\* C29 as claimed: when the nested call of a CREATE has returned with an
\* exception, the nonce of the creating contract is what it was before the
\* step, and when it has returned normally the nonce is higher by exactly 1.
C29_Claimed ==
    (Returned /\ h.op = "CREATE") =>
        runState.contract.nonce =
            h.before.contract.nonce + (IF ReturnedWell THEN 1 ELSE 0)

====
